---- MODULE Spec2Model ----
(***************************************************************************)
(* Calendar-aware aggregation engine of the GMet climate API: the WMO      *)
(* aggregator (app/utils/aggregation.py), the lazy-compute orchestrator    *)
(* and the batch population (app/crud/products.py,                         *)
(* scripts/populate_recent_climate_products.py) and the persistence of     *)
(* climate normals (scripts/compute_climate_normals.py).                   *)
(*                                                                         *)
(* Conventions.                                                            *)
(*   - A date is its proleptic Gregorian ordinal (datetime.date.toordinal) *)
(*     so that date comparisons and timedelta arithmetic are integer       *)
(*     comparisons and additions.                                          *)
(*   - Optional values: None is <<>>, a present value v is <<v>>.          *)
(*   - A raised exception is the pair <<"raise", name>>.                   *)
(*   - Rainfall is counted in hundredths of a millimetre, percentages in   *)
(*     tenths of a percent; round(x, 1) is rounding to a multiple of ten   *)
(*     hundredths (of one tenth of a percent).                             *)
(*   - Of each summary only the key, the rainfall fields and the data      *)
(*     quality fields are carried; the temperature, humidity, wind and     *)
(*     sunshine fields are computed by the same pattern and are left out.  *)
(***************************************************************************)
EXTENDS Integers, Sequences, FiniteSets, Bags, TLC

VARIABLES
    daily,            \* daily_summaries table: station_id -> (date -> record)
    climate_normals,  \* climate_normals table: set of rows
    summaries,        \* the five summary tables: timescale -> set of rows
    agg,              \* function under test: [call, done, result]
    key,              \* the period key the API handlers are asked for
    requests,         \* get_or_compute invocations: a bag of [pc, call, ...]
    ingested,         \* daily records ingested since the start
    normal_runs,      \* completed runs of compute_station_normals
    run               \* the batch population run: [pc, station, ...]

vars == <<daily, climate_normals, summaries, agg, key, requests, ingested, normal_runs, run>>

(***************************************************************************)
(* Optional values and exceptions                                          *)
(***************************************************************************)
None == <<>>

Some(v) == <<v>>

Raise(name) == <<"raise", name>>

IsRaise(r) == Len(r) = 2 /\ r[1] = "raise"

(***************************************************************************)
(* Python arithmetic                                                       *)
(***************************************************************************)
\* round(p / q) for q > 0: nearest integer, a tie goes to the even one
RoundDiv(p, q) ==
    LET fl == p \div q
        rem2 == 2 * (p - fl * q)
    IN  IF rem2 < q THEN fl
        ELSE IF rem2 > q THEN fl + 1
        ELSE IF fl % 2 = 0 THEN fl ELSE fl + 1

\* round(x, 1) of a quantity held in hundredths: the result is in hundredths
Round1(h) == 10 * RoundDiv(h, 10)

(***************************************************************************)
(* Period definition utilities                                             *)
(***************************************************************************)
is_leap_year(year) ==
    (year % 4 = 0 /\ year % 100 # 0) \/ (year % 400 = 0)

days_in_month(year, month) ==
    IF month = 2 THEN (IF is_leap_year(year) THEN 29 ELSE 28)
    ELSE IF month \in {4, 6, 9, 11} THEN 30 ELSE 31

RECURSIVE days_before_month(_, _)
days_before_month(year, month) ==
    IF month = 1 THEN 0
    ELSE days_before_month(year, month - 1) + days_in_month(year, month - 1)

days_before_year(year) ==
    LET y == year - 1
    IN  y * 365 + (y \div 4) - (y \div 100) + (y \div 400)

\* datetime.date(year, month, day), as its ordinal
date(year, month, day) ==
    days_before_year(year) + days_before_month(year, month) + day

\* date.weekday(): Monday is 0
weekday(d) == (d + 6) % 7

\* the year of a date
year_of(d) ==
    CHOOSE y \in (d \div 366)..(d \div 365 + 1) :
        date(y, 1, 1) <= d /\ d < date(y + 1, 1, 1)

\* date_obj.isocalendar(): <<iso_year, iso_week>>, the week of a date being
\* that of its Thursday
get_iso_week(date_obj) ==
    LET thursday == date_obj - weekday(date_obj) + 3
        iso_year == year_of(thursday)
    IN  <<iso_year, (thursday - date(iso_year, 1, 1)) \div 7 + 1>>

get_week_date_range(year, week_number) ==
    LET jan_4 == date(year, 1, 4)
        first_monday == jan_4 - weekday(jan_4)
        start_date == first_monday + 7 * (week_number - 1)
    IN  <<start_date, start_date + 6>>

(***************************************************************************)
(* Store reads                                                             *)
(* db is what a session reads: [daily, climate_normals, summaries].        *)
(***************************************************************************)
\* select(DailySummary).where(station_id == .., date >= start, date <= end):
\* the dates of the records found (one record per station and date,
\* uq_daily_station_date)
daily_data_after_start(db, station_id, start_date, end_date) ==
    {d \in DOMAIN db.daily[station_id] : d > start_date /\ d <= end_date}

daily_data(db, station_id, start_date, end_date) ==
    {d \in DOMAIN db.daily[station_id] : d >= start_date /\ d <= end_date}

\* [d.rainfall_total for d in daily_data if d.rainfall_total is not None],
\* as the dates that carry a value
rainfall_values(db, station_id, data) ==
    {d \in data : db.daily[station_id][d].rainfall_total # None}

\* sum(rainfall_values) over the dates lo..hi (summed by halves: the nesting
\* stays logarithmic in the length of the period)
RECURSIVE sum_rainfall(_, _, _, _)
sum_rainfall(table, values, lo, hi) ==
    IF lo > hi THEN 0
    ELSE IF lo = hi THEN (IF lo \in values THEN table[lo].rainfall_total[1] ELSE 0)
    ELSE LET mid == (lo + hi) \div 2
         IN  sum_rainfall(table, values, lo, mid)
             + sum_rainfall(table, values, mid + 1, hi)

\* the sum of f[d] over the dates d of lo..hi that f is defined on
RECURSIVE sum_days(_, _, _)
sum_days(f, lo, hi) ==
    IF lo > hi THEN 0
    ELSE IF lo = hi THEN (IF lo \in DOMAIN f THEN f[lo] ELSE 0)
    ELSE LET mid == (lo + hi) \div 2
         IN  sum_days(f, lo, mid) + sum_days(f, mid + 1, hi)

\* sum(1 for r in rainfall_values if r >= 1.0)
rain_days(table, values) ==
    Cardinality({d \in values : table[d].rainfall_total[1] >= 100})

\* Result.scalar_one_or_none()
scalar_one_or_none(rows) ==
    IF rows = {} THEN None
    ELSE IF Cardinality(rows) = 1 THEN Some(CHOOSE r \in rows : TRUE)
    ELSE Raise("MultipleResultsFound")

NormalPeriodStart == 1991

NormalPeriodEnd == 2020

get_monthly_normal(db, station_id, month) ==
    scalar_one_or_none({n \in db.climate_normals :
        /\ n.station_id = station_id
        /\ n.normal_period_start = NormalPeriodStart
        /\ n.normal_period_end = NormalPeriodEnd
        /\ n.timescale = "monthly"
        /\ n.month = Some(month)})

get_dekadal_normal(db, station_id, month, dekad) ==
    scalar_one_or_none({n \in db.climate_normals :
        /\ n.station_id = station_id
        /\ n.normal_period_start = NormalPeriodStart
        /\ n.normal_period_end = NormalPeriodEnd
        /\ n.timescale = "dekadal"
        /\ n.month = Some(month)
        /\ n.dekad = Some(dekad)})

get_seasonal_normal(db, station_id, season) ==
    scalar_one_or_none({n \in db.climate_normals :
        /\ n.station_id = station_id
        /\ n.normal_period_start = NormalPeriodStart
        /\ n.normal_period_end = NormalPeriodEnd
        /\ n.timescale = "seasonal"
        /\ n.season = Some(season)})

get_annual_normal(db, station_id) ==
    scalar_one_or_none({n \in db.climate_normals :
        /\ n.station_id = station_id
        /\ n.normal_period_start = NormalPeriodStart
        /\ n.normal_period_end = NormalPeriodEnd
        /\ n.timescale = "annual"})

(***************************************************************************)
(* Anomalies                                                               *)
(***************************************************************************)
compute_climate_anomaly_absolute(value, normal, method) ==
    IF value = None \/ normal = None THEN None
    ELSE Some([num |-> value[1] - normal[1], den |-> 1])

\* The float returned is held as the fraction num / den, den > 0.
compute_climate_anomaly(value, normal, method) ==
    IF value = None \/ normal = None THEN None
    ELSE IF method = "absolute" THEN Some([num |-> value[1] - normal[1], den |-> 1])
    ELSE IF method = "percent" THEN
        IF normal[1] = 0 THEN None
        ELSE IF normal[1] > 0
             THEN Some([num |-> (value[1] - normal[1]) * 100, den |-> normal[1]])
             ELSE Some([num |-> (normal[1] - value[1]) * 100, den |-> -normal[1]])
    ELSE Raise("ValueError")

\* round(x, 1) of an anomaly: hundredths of a millimetre for an absolute
\* anomaly, tenths of a percent for a percent anomaly
round_absolute(a) == IF a = None THEN None ELSE Some(Round1(a[1].num))

round_percent(a) == IF a = None THEN None ELSE Some(RoundDiv(a[1].num * 10, a[1].den))

rainfall_anomalies_defaulted(normal, has_rainfall, rainfall_sum) ==
    IF normal # None /\ has_rainfall /\ normal[1].rainfall_normal # None
    THEN <<round_absolute(compute_climate_anomaly(
               Some(rainfall_sum), normal[1].rainfall_normal, "absolute")),
           round_percent(compute_climate_anomaly(
               Some(rainfall_sum), normal[1].rainfall_normal, "percent"))>>
    ELSE <<Some(0), Some(0)>>

\* The rainfall anomaly block shared by the monthly, dekadal, seasonal and
\* annual aggregators: <<rainfall_anomaly, rainfall_anomaly_percent>>
rainfall_anomalies(normal, has_rainfall, rainfall_sum) ==
    IF normal # None /\ has_rainfall /\ normal[1].rainfall_normal # None
    THEN <<round_absolute(compute_climate_anomaly(
               Some(rainfall_sum), normal[1].rainfall_normal, "absolute")),
           round_percent(compute_climate_anomaly(
               Some(rainfall_sum), normal[1].rainfall_normal, "percent"))>>
    ELSE <<None, None>>

(***************************************************************************)
(* WMO aggregation functions                                               *)
(* Each returns None (insufficient data), Some(dict) or a raised exception.*)
(***************************************************************************)
WeeklyMinDays == 5

MonthlyMinPercent == 70

DekadalMinDays == 7

SeasonalMinPercent == 70

AnnualMinPercent == 80

weekly_insufficient_lax(days_with_data) == days_with_data < WeeklyMinDays - 1

\* len(daily_data) < 5
weekly_insufficient(days_with_data) == days_with_data < WeeklyMinDays

\* data_completeness_percent < 70, with
\* data_completeness_percent = (days_with_data / days_in_this_month) * 100
monthly_insufficient_flat(days_with_data, days_in_this_month) ==
    days_with_data < 21

monthly_insufficient(days_with_data, days_in_this_month) ==
    days_with_data * 100 < MonthlyMinPercent * days_in_this_month

compute_weekly_summary(db, station_id, year, week_number) ==
    LET range == get_week_date_range(year, week_number)
        start_date == range[1]
        end_date == range[2]
        table == db.daily[station_id]
        data == daily_data(db, station_id, start_date, end_date)
        values == rainfall_values(db, station_id, data)
    IN  IF weekly_insufficient(Cardinality(data)) THEN None
        ELSE Some([
            station_id |-> station_id,
            year |-> year,
            week_number |-> week_number,
            start_date |-> start_date,
            end_date |-> end_date,
            rainfall_total |->
                IF values # {} THEN Some(sum_rainfall(table, values, start_date, end_date))
                ELSE None,
            wet_days_count |->
                IF values # {} THEN Some(rain_days(table, values)) ELSE None])

compute_monthly_summary(db, station_id, year, month) ==
    LET start_date == date(year, month, 1)
        days_in_this_month == days_in_month(year, month)
        end_date == date(year, month, days_in_this_month)
        table == db.daily[station_id]
        data == daily_data(db, station_id, start_date, end_date)
        days_with_data == Cardinality(data)
        values == rainfall_values(db, station_id, data)
        rainfall_sum == sum_rainfall(table, values, start_date, end_date)
        normal == get_monthly_normal(db, station_id, month)
        anomalies == rainfall_anomalies(normal, values # {}, rainfall_sum)
    IN  IF monthly_insufficient(days_with_data, days_in_this_month) THEN None
        ELSE IF IsRaise(normal) THEN normal
        ELSE Some([
            station_id |-> station_id,
            year |-> year,
            month |-> month,
            rainfall_total |-> IF values # {} THEN Some(Round1(rainfall_sum)) ELSE None,
            rainfall_anomaly |-> anomalies[1],
            rainfall_anomaly_percent |-> anomalies[2],
            rainfall_days |->
                IF values # {} THEN Some(rain_days(table, values)) ELSE None,
            days_with_data |-> days_with_data,
            data_completeness_percent |->
                RoundDiv(days_with_data * 1000, days_in_this_month)])

compute_dekadal_summary(db, station_id, year, month, dekad) ==
    LET start_date == IF dekad = 1 THEN date(year, month, 1)
                      ELSE IF dekad = 2 THEN date(year, month, 11)
                      ELSE date(year, month, 21)
        end_date == IF dekad = 1 THEN date(year, month, 10)
                    ELSE IF dekad = 2 THEN date(year, month, 20)
                    ELSE date(year, month, days_in_month(year, month))
        table == db.daily[station_id]
        data == daily_data(db, station_id, start_date, end_date)
        values == rainfall_values(db, station_id, data)
        rainfall_sum == sum_rainfall(table, values, start_date, end_date)
        normal == get_dekadal_normal(db, station_id, month, dekad)
        anomalies == rainfall_anomalies(normal, values # {}, rainfall_sum)
    IN  IF Cardinality(data) < DekadalMinDays THEN None
        ELSE IF IsRaise(normal) THEN normal
        ELSE Some([
            station_id |-> station_id,
            year |-> year,
            month |-> month,
            dekad |-> dekad,
            start_date |-> start_date,
            end_date |-> end_date,
            rainfall_total |-> IF values # {} THEN Some(Round1(rainfall_sum)) ELSE None,
            rainfall_anomaly |-> anomalies[1],
            rainfall_anomaly_percent |-> anomalies[2],
            rainy_days |->
                IF values # {} THEN Some(rain_days(table, values)) ELSE None])

\* <<start_date, end_date, expected_days>> of a season, None for an unknown one
season_range(year, season) ==
    IF season = "MAM" THEN Some(<<date(year, 3, 1), date(year, 5, 31), 92>>)
    ELSE IF season = "JJA" THEN Some(<<date(year, 6, 1), date(year, 8, 31), 92>>)
    ELSE IF season = "SON" THEN Some(<<date(year, 9, 1), date(year, 11, 30), 91>>)
    ELSE IF season = "DJF" THEN
        Some(<<date(year, 12, 1),
               date(year + 1, 2, IF ~is_leap_year(year + 1) THEN 28 ELSE 29),
               IF ~is_leap_year(year + 1) THEN 90 ELSE 91>>)
    ELSE None

compute_seasonal_summary(db, station_id, year, season) ==
    LET range == season_range(year, season)
        start_date == range[1][1]
        end_date == range[1][2]
        expected_days == range[1][3]
        table == db.daily[station_id]
        data == daily_data(db, station_id, start_date, end_date)
        days_with_data == Cardinality(data)
        values == rainfall_values(db, station_id, data)
        rainfall_sum == sum_rainfall(table, values, start_date, end_date)
        normal == get_seasonal_normal(db, station_id, season)
        anomalies == rainfall_anomalies(normal, values # {}, rainfall_sum)
        \* the body of `for d in daily_data` for the record of date d, on
        \* st = <<max_dry_spell, dry_spells_count, current_dry_spell>>
        dry_spell_step(d, st) ==
            IF d \notin values THEN st
            ELSE IF table[d].rainfall_total[1] < 100
            THEN <<IF st[1] >= st[3] + 1 THEN st[1] ELSE st[3] + 1, st[2], st[3] + 1>>
            ELSE <<st[1], st[2] + (IF st[3] >= 7 THEN 1 ELSE 0), 0>>
        \* the loop over the records of lo..hi, in the order of their dates
        RECURSIVE dry_spell_loop(_, _, _)
        dry_spell_loop(lo, hi, st) ==
            IF lo > hi THEN st
            ELSE IF lo = hi THEN dry_spell_step(lo, st)
            ELSE LET mid == (lo + hi) \div 2
                     first_half == dry_spell_loop(lo, mid, st)
                     \* (never negative: the test makes the first half of the
                     \* loop run before the second)
                 IN  IF first_half[3] >= 0
                     THEN dry_spell_loop(mid + 1, hi, first_half)
                     ELSE first_half
        \* <<max_dry_spell, dry_spells_count>> after the loop and the check
        \* of the last dry spell
        dry_spells ==
            LET st == dry_spell_loop(start_date, end_date, <<0, 0, 0>>)
            IN  <<st[1], st[2] + (IF st[3] >= 7 THEN 1 ELSE 0)>>
    IN  IF range = None THEN Raise("ValueError")
        \* (days_with_data / expected_days) * 100 < 70
        ELSE IF days_with_data * 100 < SeasonalMinPercent * expected_days THEN None
        ELSE IF IsRaise(normal) THEN normal
        ELSE Some([
            station_id |-> station_id,
            year |-> year,
            season |-> season,
            start_date |-> start_date,
            end_date |-> end_date,
            rainfall_total |-> IF values # {} THEN Some(Round1(rainfall_sum)) ELSE None,
            rainfall_anomaly |-> anomalies[1],
            rainfall_anomaly_percent |-> anomalies[2],
            rainy_days |->
                IF values # {} THEN Some(rain_days(table, values)) ELSE None,
            max_dry_spell_days |->
                IF values # {} THEN Some(dry_spells[1]) ELSE None,
            dry_spells_count |->
                IF values # {} THEN Some(dry_spells[2]) ELSE None])

compute_annual_summary(db, station_id, year) ==
    LET start_date == date(year, 1, 1)
        end_date == date(year, 12, 31)
        expected_days == IF is_leap_year(year) THEN 366 ELSE 365
        table == db.daily[station_id]
        data == daily_data(db, station_id, start_date, end_date)
        days_with_data == Cardinality(data)
        values == rainfall_values(db, station_id, data)
        rainfall_sum == sum_rainfall(table, values, start_date, end_date)
        normal == get_annual_normal(db, station_id)
        anomalies == rainfall_anomalies(normal, values # {}, rainfall_sum)
    IN  \* (days_with_data / expected_days) * 100 < 80
        IF days_with_data * 100 < AnnualMinPercent * expected_days THEN None
        ELSE IF IsRaise(normal) THEN normal
        ELSE Some([
            station_id |-> station_id,
            year |-> year,
            rainfall_total |-> IF values # {} THEN Some(Round1(rainfall_sum)) ELSE None,
            rainfall_anomaly |-> anomalies[1],
            rainfall_anomaly_percent |-> anomalies[2],
            rainfall_days |->
                IF values # {} THEN Some(rain_days(table, values)) ELSE None,
            data_completeness_percent |->
                RoundDiv(days_with_data * 1000, expected_days)])

(***************************************************************************)
(* Period keys                                                             *)
(* A call is [timescale, station_id, year, month, dekad, season,           *)
(* week_number]; the fields a timescale does not use are 0 or "".          *)
(***************************************************************************)
Timescales == {"weekly", "dekadal", "monthly", "seasonal", "annual"}

WeeklyCall(station_id, year, week_number) ==
    [timescale |-> "weekly", station_id |-> station_id, year |-> year,
     month |-> 0, dekad |-> 0, season |-> "", week_number |-> week_number]

MonthlyCall(station_id, year, month) ==
    [timescale |-> "monthly", station_id |-> station_id, year |-> year,
     month |-> month, dekad |-> 0, season |-> "", week_number |-> 0]

DekadalCall(station_id, year, month, dekad) ==
    [timescale |-> "dekadal", station_id |-> station_id, year |-> year,
     month |-> month, dekad |-> dekad, season |-> "", week_number |-> 0]

SeasonalCall(station_id, year, season) ==
    [timescale |-> "seasonal", station_id |-> station_id, year |-> year,
     month |-> 0, dekad |-> 0, season |-> season, week_number |-> 0]

AnnualCall(station_id, year) ==
    [timescale |-> "annual", station_id |-> station_id, year |-> year,
     month |-> 0, dekad |-> 0, season |-> "", week_number |-> 0]

\* The aggregator get_or_compute and the batch population call for a key
compute_summary(db, c) ==
    IF c.timescale = "weekly"
        THEN compute_weekly_summary(db, c.station_id, c.year, c.week_number)
    ELSE IF c.timescale = "monthly"
        THEN compute_monthly_summary(db, c.station_id, c.year, c.month)
    ELSE IF c.timescale = "dekadal"
        THEN compute_dekadal_summary(db, c.station_id, c.year, c.month, c.dekad)
    ELSE IF c.timescale = "seasonal"
        THEN compute_seasonal_summary(db, c.station_id, c.year, c.season)
    ELSE compute_annual_summary(db, c.station_id, c.year)

\* The closed interval and the expected calendar length resolved for a key
period_range(c) ==
    IF c.timescale = "weekly" THEN
        LET r == get_week_date_range(c.year, c.week_number) IN <<r[1], r[2], 7>>
    ELSE IF c.timescale = "monthly" THEN
        <<date(c.year, c.month, 1),
          date(c.year, c.month, days_in_month(c.year, c.month)),
          days_in_month(c.year, c.month)>>
    ELSE IF c.timescale = "dekadal" THEN
        LET first == IF c.dekad = 1 THEN 1 ELSE IF c.dekad = 2 THEN 11 ELSE 21
            last == IF c.dekad = 1 THEN 10 ELSE IF c.dekad = 2 THEN 20
                    ELSE days_in_month(c.year, c.month)
        IN  <<date(c.year, c.month, first), date(c.year, c.month, last),
              last - first + 1>>
    ELSE IF c.timescale = "seasonal" THEN season_range(c.year, c.season)[1]
    ELSE <<date(c.year, 1, 1), date(c.year, 12, 31),
           IF is_leap_year(c.year) THEN 366 ELSE 365>>

(***************************************************************************)
(* The aggregator on its own (SpecAgg)                                     *)
(* The inputs are a key, a daily table and a climate_normals table; the    *)
(* single action applies the aggregator of the key's timescale.            *)
(***************************************************************************)
NumStations == 2

Stations == 1..NumStations

\* Daily rainfall series (hundredths of a millimetre), repeated over the days
RainPatterns ==
    << <<None>>,
       <<Some(0), Some(25), Some(100), None>>,
       <<Some(1250), Some(75)>> >>

\* A daily table: station c.station_id reported on n consecutive days from
\* the day before the period starts, following rainfall pattern p; every
\* other station reported one very wet day on the first day of the period.
PeriodData(c, p, n) ==
    LET first == period_range(c)[1] - 1
        pat == RainPatterns[p]
    IN  [s \in Stations |->
            IF s = c.station_id
            THEN [d \in first..(first + n - 1) |->
                     [rainfall_total |-> pat[((d - first) % Len(pat)) + 1]]]
            ELSE [d \in {first + 1} |-> [rainfall_total |-> Some(99900)]]]

\* The climate normal of the sub-period of key c, as compute_station_normals
\* stores it
NormalFor(c, id, rainfall_normal) ==
    [id |-> id,
     station_id |-> c.station_id,
     normal_period_start |-> NormalPeriodStart,
     normal_period_end |-> NormalPeriodEnd,
     timescale |-> c.timescale,
     month |-> IF c.timescale \in {"monthly", "dekadal"} THEN Some(c.month) ELSE None,
     dekad |-> IF c.timescale = "dekadal" THEN Some(c.dekad) ELSE None,
     season |-> IF c.timescale = "seasonal" THEN Some(c.season) ELSE None,
     rainfall_normal |-> rainfall_normal]

NoSummaries == [t \in Timescales |-> {}]

\* get_or_compute invocations made in a behaviour
NumRequests == 2

NoRequests == EmptyBag

\* No batch population is running
NoRun ==
    [pc |-> "finished", station |-> 0, year |-> 0, period |-> 0,
     start_year |-> 0, end_year |-> 0, flushed |-> {}, added |-> {},
     broken |-> FALSE, completed |-> {}, errors |-> {}]

InitAgg ==
    LET \* The keys the aggregator is applied to: every calendar length of every
        \* timescale
        AggCalls ==
            {WeeklyCall(1, 2024, 1), WeeklyCall(1, 2020, 53)}
            \cup {MonthlyCall(1, 2023, 2), MonthlyCall(1, 2024, 2),
                  MonthlyCall(1, 2024, 4), MonthlyCall(1, 2024, 1)}
            \cup {DekadalCall(1, 2023, 2, 3), DekadalCall(1, 2024, 2, 3),
                  DekadalCall(1, 2024, 4, 3), DekadalCall(1, 2024, 1, 3),
                  DekadalCall(1, 2024, 1, 1), DekadalCall(1, 2024, 1, 2)}
            \cup {SeasonalCall(1, 2024, "MAM"), SeasonalCall(1, 2024, "SON"),
                  SeasonalCall(1, 2023, "DJF"), SeasonalCall(1, 2024, "DJF")}
            \cup {AnnualCall(1, 2023), AnnualCall(1, 2024)}
    IN
    \E c \in AggCalls, p \in 1..Len(RainPatterns) :
      \E n \in 0..(period_range(c)[3] + 2) :
        /\ daily = PeriodData(c, p, n)
        /\ climate_normals \in {{}, {NormalFor(c, 1, Some(1000))}}
        /\ summaries = NoSummaries
        /\ agg = [call |-> c, done |-> FALSE, result |-> None]
        /\ key = c
        /\ requests = NoRequests
        /\ ingested = 0
        /\ ingested = 0
    /\ normal_runs = 0
    /\ run = NoRun

DB == [daily |-> daily, climate_normals |-> climate_normals, summaries |-> summaries]

AggCompute ==
    /\ ~agg.done
    /\ agg' = [agg EXCEPT !.done = TRUE, !.result = compute_summary(DB, agg.call)]
    /\ UNCHANGED <<daily, climate_normals, summaries, key, requests, ingested, normal_runs, run>>

NextAgg == AggCompute

SpecAgg == InitAgg /\ [][NextAgg]_vars

(***************************************************************************)
(* Persistence of climate normals (scripts/compute_climate_normals.py)     *)
(***************************************************************************)
\* The 53 sub-periods of a station and reference window, in the order
\* compute_station_normals visits them
MonthlyNormalKeys ==
    {[timescale |-> "monthly", month |-> Some(mo), dekad |-> None, season |-> None] :
        mo \in 1..12}

DekadalNormalKeys ==
    {[timescale |-> "dekadal", month |-> Some(mo), dekad |-> Some(dk), season |-> None] :
        mo \in 1..12, dk \in 1..3}

SeasonalNormalKeys ==
    {[timescale |-> "seasonal", month |-> None, dekad |-> None, season |-> Some(se)] :
        se \in {"MAM", "JJA", "SON", "DJF"}}

AnnualNormalKeys ==
    {[timescale |-> "annual", month |-> None, dekad |-> None, season |-> None]}

AllNormalKeys ==
    MonthlyNormalKeys \cup DekadalNormalKeys \cup SeasonalNormalKeys \cup AnnualNormalKeys

\* position of a sub-period in the visiting order, 1..53
normal_position(k) ==
    IF k.timescale = "monthly" THEN k.month[1]
    ELSE IF k.timescale = "dekadal" THEN 12 + 3 * (k.month[1] - 1) + k.dekad[1]
    ELSE IF k.timescale = "seasonal" THEN
        48 + (IF k.season[1] = "MAM" THEN 1 ELSE IF k.season[1] = "JJA" THEN 2
              ELSE IF k.season[1] = "SON" THEN 3 ELSE 4)
    ELSE 53

\* uq_climate_normal_unique: UNIQUE (station_id, normal_period_start,
\* normal_period_end, timescale, month, dekad, season).  A NULL is distinct
\* from every value, another NULL included, so two rows conflict only if
\* they agree on all seven columns and none of them is NULL.
normal_conflict(a, b) ==
    /\ a.station_id = b.station_id
    /\ a.normal_period_start = b.normal_period_start
    /\ a.normal_period_end = b.normal_period_end
    /\ a.timescale = b.timescale
    /\ a.month # None /\ a.month = b.month
    /\ a.dekad # None /\ a.dekad = b.dekad
    /\ a.season # None /\ a.season = b.season

\* normals_to_insert of compute_station_normals: one ClimateNormal for each
\* sub-period whose compute_*_normal returned data.  Those computations read
\* the daily records of the thirty reference years; which of them return
\* data (computed) and the value they return (rainfall_normal) are inputs
\* of a run.  The ids continue the table's sequence.
normals_to_insert(db, station_id, computed, rainfall_normal) ==
    {[id |-> Cardinality(db.climate_normals)
                + Cardinality({j \in computed : normal_position(j) <= normal_position(k)}),
      station_id |-> station_id,
      normal_period_start |-> NormalPeriodStart,
      normal_period_end |-> NormalPeriodEnd,
      timescale |-> k.timescale,
      month |-> k.month,
      dekad |-> k.dekad,
      season |-> k.season,
      rainfall_normal |-> rainfall_normal] : k \in computed}

\* db.add_all(normals_to_insert); await db.commit(): the rows are stored
\* together unless one of them conflicts with a stored row (IntegrityError,
\* nothing is stored).  Returns <<table after the run, raised or None>>.
compute_station_normals(db, station_id, computed, rainfall_normal) ==
    LET rows == normals_to_insert(db, station_id, computed, rainfall_normal)
    IN  IF \E a \in rows, b \in db.climate_normals : normal_conflict(a, b)
        THEN <<db.climate_normals, Raise("IntegrityError")>>
        ELSE <<db.climate_normals \cup rows, None>>

(***************************************************************************)
(* Lazy-compute orchestrator (app/crud/products.py): get_or_compute        *)
(* The five methods have one shape; a request walks                        *)
(*   idle -> lookup -> compute -> normal -> commit -> refresh -> done      *)
(* with one step per await.  Every request runs on a session of its own    *)
(* (get_db), so what it has added is invisible to the others until its     *)
(* commit.                                                                 *)
(***************************************************************************)
\* The natural key of a summary table: a row answers the cache lookup of c
same_key(row, c) ==
    /\ row.station_id = c.station_id
    /\ row.year = c.year
    /\ c.timescale = "weekly" => row.week_number = c.week_number
    /\ c.timescale \in {"monthly", "dekadal"} => row.month = c.month
    /\ c.timescale = "dekadal" => row.dekad = c.dekad
    /\ c.timescale = "seasonal" => row.season = c.season

no_cached_rows(db, c) == {}

cached_or_in_flight(db, c) ==
    {row \in db.summaries[c.timescale] : same_key(row, c)}
    \cup {[f \in DOMAIN req.obj[1] \cup {"id"} |-> IF f = "id" THEN 0 ELSE req.obj[1][f]] :
             req \in {q \in BagToSet(requests) : q.pc = "commit" /\ q.call = c}}

\* select(Model).where(and_(<key columns of c>))
cached_rows(db, c) ==
    {row \in db.summaries[c.timescale] : same_key(row, c)}

unique_never_violated(table, obj, c) == FALSE

\* UniqueConstraint on the key columns of a summary table (all NOT NULL):
\* the INSERT of obj is rejected when a stored row has its key
unique_violated(table, obj, c) ==
    \E row \in table : same_key(row, c)

\* the row an INSERT of obj stores: the id continues the table's sequence
inserted_row(table, obj) ==
    [f \in DOMAIN obj \cup {"id"} |->
        IF f = "id" THEN Cardinality(table) + 1 ELSE obj[f]]

MaxIngest == 2

MaxNormalRuns == 2

Init ==
    LET \* The station of key c has reported every day from the eve of the period
        \* and is one report short of a summary: the longest such run of reports
        \* with which the aggregator still finds the data insufficient.
        BaseDays(c) ==
            CHOOSE n \in 1..(period_range(c)[3] + 1) :
                /\ compute_summary([daily |-> PeriodData(c, 2, n), climate_normals |-> {},
                                    summaries |-> NoSummaries], c) = None
                /\ compute_summary([daily |-> PeriodData(c, 2, n + 1), climate_normals |-> {},
                                    summaries |-> NoSummaries], c) # None
    IN
    LET \* The keys requested, one of each timescale: week 44 of 2024 (Oct 28 -
        \* Nov 3), February 2024, the third dekad of October 2024, the SON season
        \* of 2024 and the year 2024, all of station 1.  The requests of a
        \* behaviour are all for one of them: requests for different keys read and
        \* write different rows.
        CallKeys ==
            {WeeklyCall(1, 2024, 44), MonthlyCall(1, 2024, 2), DekadalCall(1, 2024, 10, 3),
             SeasonalCall(1, 2024, "SON"), AnnualCall(1, 2024)}
    IN
    /\ key \in CallKeys
    /\ daily = PeriodData(key, 2, BaseDays(key))
    /\ climate_normals = {}
    /\ summaries = NoSummaries
    /\ agg = [call |-> key, done |-> TRUE, result |-> None]
    /\ requests = NoRequests
    /\ ingested = 0
    /\ normal_runs = 0
    /\ run = NoRun

\* The invocations are told apart by their state only: requests is the bag
\* of their records, and a step replaces one record by its successor.
Requests == BagToSet(requests)

step(req, next) == (requests (-) SetToBag({req})) (+) SetToBag({next})

\* An API handler calls get_or_compute for key c
Call(c) ==
    LET \* A get_or_compute invocation for key c at its first statement
        NewRequest ==
            [pc |-> "lookup", call |-> c, snapshot |-> None, obj |-> None,
             ret |-> None, log |-> <<>>]
    IN
    /\ BagCardinality(requests) < NumRequests
    /\ requests' = requests (+) SetToBag({NewRequest})
    /\ UNCHANGED <<daily, climate_normals, summaries, agg, key, ingested, normal_runs, run>>

\* cached = result.scalars().first(); if cached: return cached
Lookup(req) ==
    LET \* Result.scalars().first()
        scalars_first(rows) ==
            IF rows = {} THEN None
            ELSE Some(CHOOSE r \in rows : \A q \in rows : r.id <= q.id)
    IN
    /\ req.pc = "lookup"
    /\ LET cached == scalars_first(cached_rows(DB, req.call))
           log == Append(req.log, "select_cached")
       IN  requests' = step(req,
               IF cached # None
               THEN [req EXCEPT !.pc = "done", !.ret = cached, !.log = log]
               ELSE [req EXCEPT !.pc = "compute", !.log = log])
    /\ UNCHANGED <<daily, climate_normals, summaries, agg, key, ingested, normal_runs, run>>

\* What follows data = await compute_*_summary(...): an exception
\* propagates; if not data: return None; otherwise obj = Model(**data);
\* db.add(obj)
after_compute(req, data, log) ==
    IF IsRaise(data) THEN
        [req EXCEPT !.pc = "done", !.ret = data, !.snapshot = None, !.log = log]
    ELSE IF data = None THEN
        [req EXCEPT !.pc = "done", !.ret = None, !.snapshot = None, !.log = log]
    ELSE [req EXCEPT !.pc = "commit", !.obj = data, !.snapshot = None, !.log = log]

\* The daily table holds every day of a station up to its last one and
\* records are only appended, so what a query saw earlier is the table of
\* now cut at the last day it held then.
LastDay == period_range(key)[1] - 2 + Cardinality(DOMAIN daily[key.station_id])

\* compute_*_summary up to its daily-records query and completeness gate.
\* The weekly aggregator reads nothing else; the others go on to the normal
\* lookup when the gate passes.
ReadDaily(req) ==
    /\ req.pc = "compute"
    /\ LET data == compute_summary(DB, req.call)
           log == Append(req.log, "select_daily")
       IN  requests' = step(req,
               IF req.call.timescale = "weekly" \/ data = None
               THEN after_compute(req, data, log)
               ELSE [req EXCEPT !.pc = "normal", !.snapshot = Some(LastDay), !.log = log])
    /\ UNCHANGED <<daily, climate_normals, summaries, agg, key, ingested, normal_runs, run>>

\* compute_*_summary from its normal lookup on: the summary is built from
\* the daily records read before and the normal found now
ReadNormal(req) ==
    LET as_read(tables, last) ==
            [s \in DOMAIN tables |->
                [d \in {e \in DOMAIN tables[s] : e <= last} |-> tables[s][d]]]
    IN
    /\ req.pc = "normal"
    /\ LET seen == [daily |-> as_read(daily, req.snapshot[1]),
                    climate_normals |-> climate_normals,
                    summaries |-> summaries]
       IN  requests' = step(req,
               after_compute(req, compute_summary(seen, req.call),
                             Append(req.log, "select_normal")))
    /\ UNCHANGED <<daily, climate_normals, summaries, agg, key, ingested, normal_runs, run>>

commit_retried(req, log, error) ==
    IF "insert" \in {req.log[i] : i \in 1..Len(req.log)}
    THEN [req EXCEPT !.pc = "done", !.obj = None, !.log = log, !.ret = Raise(error)]
    ELSE [req EXCEPT !.log = log]

\* The exception of a failed commit leaves get_or_compute: nothing catches it
commit_failed(req, log, error) ==
    [req EXCEPT !.pc = "done", !.obj = None, !.log = log, !.ret = Raise(error)]

\* await db.commit(): the INSERT is flushed and committed.  It raises
\* IntegrityError when the key is already stored, and it can fail for a
\* reason of the store's (OperationalError); either propagates.  While
\* another transaction holds a flushed, uncommitted row of the key, the
\* INSERT waits for that transaction to end.
Commit(req) ==
    /\ req.pc = "commit"
    /\ ~\E p \in run.flushed : p.call = req.call
    /\ LET table == summaries[req.call.timescale]
           log == Append(req.log, "insert")
       IN  IF unique_violated(table, req.obj[1], req.call)
           THEN /\ requests' = step(req, commit_failed(req, log, "IntegrityError"))
                /\ UNCHANGED summaries
           ELSE \/ /\ summaries' = [summaries EXCEPT ![req.call.timescale] =
                                       @ \cup {inserted_row(table, req.obj[1])}]
                   /\ requests' = step(req,
                          [req EXCEPT !.pc = "refresh", !.log = log,
                                      !.obj = Some(inserted_row(table, req.obj[1]))])
                \/ /\ requests' = step(req, commit_failed(req, log, "OperationalError"))
                   /\ UNCHANGED summaries
    /\ UNCHANGED <<daily, climate_normals, agg, key, ingested, normal_runs, run>>

\* await db.refresh(obj); return obj
Refresh(req) ==
    /\ req.pc = "refresh"
    /\ requests' = step(req,
           [req EXCEPT !.pc = "done", !.ret = req.obj, !.obj = None,
                       !.log = Append(req.log, "refresh")])
    /\ UNCHANGED <<daily, climate_normals, summaries, agg, key, ingested, normal_runs, run>>

\* The daily record of the next day of the key's station is ingested
Ingest ==
    LET table == daily[key.station_id]
        next == LastDay + 1
    IN  /\ ingested < MaxIngest
        /\ ingested' = ingested + 1
        /\ daily' = [daily EXCEPT ![key.station_id] =
               [d \in DOMAIN table \cup {next} |->
                   IF d = next THEN [rainfall_total |-> Some(25)] ELSE table[d]]]
        /\ UNCHANGED <<climate_normals, summaries, agg, key, requests, normal_runs, run>>

\* A run of compute_station_normals for the key's station
StoreNormals ==
    LET \* The sub-periods whose normals the requested keys look up.  A run of
        \* compute_station_normals stores up to 53 rows; the rows of the other
        \* sub-periods are read by no request for the key and are not carried here.
        RequestedNormalKeys ==
            LET \* The sub-period whose normal the aggregator of key c looks up
                normal_key(c) ==
                    [timescale |-> c.timescale,
                     month |-> IF c.timescale \in {"monthly", "dekadal"} THEN Some(c.month) ELSE None,
                     dekad |-> IF c.timescale = "dekadal" THEN Some(c.dekad) ELSE None,
                     season |-> IF c.timescale = "seasonal" THEN Some(c.season) ELSE None]
            IN
            {normal_key(key)} \cap AllNormalKeys
    IN
    /\ normal_runs < MaxNormalRuns
    /\ climate_normals' =
           compute_station_normals(DB, key.station_id, RequestedNormalKeys, Some(1000))[1]
    /\ normal_runs' = normal_runs + 1
    /\ UNCHANGED <<daily, summaries, agg, key, requests, ingested, run>>

Next ==
    \/ Call(key)
    \/ \E req \in Requests : Lookup(req)
    \/ \E req \in Requests : ReadDaily(req)
    \/ \E req \in Requests : ReadNormal(req)
    \/ \E req \in Requests : Commit(req)
    \/ \E req \in Requests : Refresh(req)
    \/ Ingest
    \/ StoreNormals

Spec == Init /\ [][Next]_vars

(***************************************************************************)
(* Runs of compute_station_normals and normal lookups (SpecNormals)        *)
(***************************************************************************)
\* The sub-periods for which a run's computations return data: all 53, the
\* monthly ones only (no dekad, season or year of the reference window is
\* complete enough), or none
ComputedNormalSets == {AllNormalKeys, MonthlyNormalKeys, {}}

\* The normal lookup of the aggregator of key c
get_normal(db, c) ==
    IF c.timescale = "monthly" THEN get_monthly_normal(db, c.station_id, c.month)
    ELSE IF c.timescale = "dekadal"
        THEN get_dekadal_normal(db, c.station_id, c.month, c.dekad)
    ELSE IF c.timescale = "seasonal" THEN get_seasonal_normal(db, c.station_id, c.season)
    ELSE get_annual_normal(db, c.station_id)

NormalLookups ==
    {MonthlyCall(1, 2024, 2), DekadalCall(1, 2024, 10, 3),
     SeasonalCall(1, 2024, "SON"), AnnualCall(1, 2024)}

InitNormals ==
    /\ key = AnnualCall(1, 2024)
    /\ daily = PeriodData(key, 1, 0)
    /\ climate_normals = {}
    /\ summaries = NoSummaries
    /\ agg = [call |-> key, done |-> FALSE, result |-> None]
    /\ requests = NoRequests
    /\ ingested = 0
    /\ normal_runs = 0
    /\ run = NoRun

\* python scripts/compute_climate_normals.py reaches station_id
RunStationNormals(station_id, computed) ==
    /\ normal_runs < MaxNormalRuns
    /\ climate_normals' = compute_station_normals(DB, station_id, computed, Some(1000))[1]
    /\ normal_runs' = normal_runs + 1
    /\ UNCHANGED <<daily, summaries, agg, key, requests, ingested, run>>

\* An aggregator looks up the normal of key c
LookupNormal(c) ==
    /\ agg' = [call |-> c, done |-> TRUE, result |-> get_normal(DB, c)]
    /\ UNCHANGED <<daily, climate_normals, summaries, key, requests, ingested, normal_runs, run>>

NextNormals ==
    \/ \E station_id \in Stations, computed \in ComputedNormalSets :
           RunStationNormals(station_id, computed)
    \/ \E c \in NormalLookups : LookupNormal(c)

SpecNormals == InitNormals /\ [][NextNormals]_vars

(***************************************************************************)
(* Batch population (app/crud/products.py batch_populate_*_summaries,      *)
(* scripts/populate_recent_climate_products.py) (SpecBatch)                *)
(* populate_all_stations walks the stations on one session; for each it    *)
(* runs the weekly batch and then the monthly batch.  A batch visits its   *)
(* periods in order, adds the summaries that are missing and commits once  *)
(* at its end.  run.added is the object added and not yet flushed,         *)
(* run.flushed the rows flushed in the open transaction.                   *)
(***************************************************************************)
\* max_week of batch_populate_weekly_summaries
weeks_in_year(year) ==
    LET last == get_iso_week(date(year, 12, 31))
    IN  IF last[1] # year THEN 52 ELSE last[2]

last_period(timescale, year) ==
    IF timescale = "weekly" THEN weeks_in_year(year) ELSE 12

period_call(timescale, station_id, year, period) ==
    IF timescale = "weekly" THEN WeeklyCall(station_id, year, period)
    ELSE MonthlyCall(station_id, year, period)

\* position of a pending object in the order the objects were added
added_position(p) ==
    (p.call.station_id * 10000 + p.call.year) * 100 + p.call.week_number + p.call.month

commit_nothing(tables, pending) == tables

\* COMMIT of the open transaction: the pending objects become rows of their
\* tables, with ids in the order they were added
commit_rows(tables, pending) ==
    [t \in DOMAIN tables |->
        tables[t] \cup
        {inserted_row(
            {i \in 1..(Cardinality(tables[t])
                + Cardinality({q \in pending : /\ q.call.timescale = t
                                               /\ added_position(q) < added_position(p)})) :
                TRUE},
            p.obj) : p \in {q \in pending : q.call.timescale = t}}]

\* The flush of the pending objects is rejected by a uniqueness constraint
flush_conflict(db, pending) ==
    \E p \in pending : unique_violated(db.summaries[p.call.timescale], p.obj, p.call)

\* The loop bookkeeping of one iteration: the next period, the next year,
\* or the commit that follows the loops
following(r) ==
    LET last == r.period = last_period(r.pc, r.year)
    IN  [r EXCEPT
            !.period = IF last THEN 1 ELSE r.period + 1,
            !.year = IF last THEN r.year + 1 ELSE r.year,
            !.pc = IF last /\ r.year = r.end_year
                   THEN (IF r.pc = "weekly" THEN "commit_weekly" ELSE "commit_monthly")
                   ELSE r.pc]

\* An iteration whose period has insufficient data adds nothing and reads
\* no summary: the run is taken on to the next iteration that finds data
\* (or raises), or to the commit.
RECURSIVE skip_insufficient(_, _)
skip_insufficient(db, r) ==
    IF /\ r.pc \in {"weekly", "monthly"}
       /\ compute_summary(db, period_call(r.pc, r.station, r.year, r.period)) = None
    THEN skip_insufficient(db, following(r))
    ELSE r

\* populate_all_stations goes on with the next station, or ends: leaving
\* the session block discards what is still pending
next_station(db, r) ==
    IF r.station < NumStations
    THEN skip_insufficient(db, [r EXCEPT !.pc = "weekly", !.station = r.station + 1,
                                         !.year = r.start_year, !.period = 1])
    ELSE [r EXCEPT !.pc = "finished", !.flushed = {}, !.added = {}]

\* except Exception: log, continue.  An error of the store has rolled the
\* transaction back; whether the session is usable again without a
\* rollback() depends on where it was raised (broken).  An error raised by a
\* computation leaves the transaction open with what was pending.
store_failure(db, r, error, broken) ==
    next_station(db, [r EXCEPT !.flushed = {}, !.added = {}, !.broken = broken,
                           !.errors = @ \cup {<<r.station, error>>}])

\* One iteration of a batch loop that finds data: the query of
\* compute_*_summary flushes the object added by the iteration before; if
\* data: existing = ...; if not existing: db.add(...).  The two queries of an iteration are taken in one
\* step: a row committed between them is found by the second exactly as if
\* it had been committed before the first.
BatchIteration ==
    LET compute_failure(db, r, error) ==
            next_station(db, [r EXCEPT !.flushed = r.flushed \cup r.added, !.added = {},
                                   !.errors = @ \cup {<<r.station, error>>}])
    IN
    /\ run.pc \in {"weekly", "monthly"}
    /\ ~run.broken
    /\ LET c == period_call(run.pc, run.station, run.year, run.period)
           data == compute_summary(DB, c)
           existing == cached_rows(DB, c) \cup {p \in run.flushed \cup run.added : p.call = c}
           added ==
               [run EXCEPT
                   !.flushed = run.flushed \cup run.added,
                   !.added = IF data # None /\ existing = {}
                             THEN {[call |-> c, obj |-> data[1]]} ELSE {}]
       IN  IF flush_conflict(DB, run.added)
           THEN \E broken \in BOOLEAN :
                    run' = store_failure(DB, run, "IntegrityError", broken)
           ELSE IF IsRaise(data) THEN run' = compute_failure(DB, run, data[2])
           ELSE run' = skip_insufficient(DB, following(added))
    /\ UNCHANGED <<daily, climate_normals, summaries, agg, key, requests, ingested, normal_runs>>

\* await db.commit() at the end of a batch; return count
BatchCommit ==
    /\ run.pc \in {"commit_weekly", "commit_monthly"}
    /\ ~run.broken
    /\ IF flush_conflict(DB, run.flushed \cup run.added)
       THEN /\ \E broken \in BOOLEAN :
                   run' = store_failure(DB, run, "IntegrityError", broken)
            /\ UNCHANGED summaries
       ELSE /\ summaries' = commit_rows(summaries, run.flushed \cup run.added)
            /\ LET done == [run EXCEPT
                       !.flushed = {}, !.added = {},
                       !.completed = @ \cup {<<run.station,
                           IF run.pc = "commit_weekly" THEN "weekly" ELSE "monthly">>}]
               IN  run' = IF run.pc = "commit_weekly"
                          THEN skip_insufficient(DB,
                                   [done EXCEPT !.pc = "monthly", !.year = run.start_year,
                                                !.period = 1])
                          ELSE next_station(DB, done)
    /\ UNCHANGED <<daily, climate_normals, agg, key, requests, ingested, normal_runs>>

\* An await of the running batch fails for a reason of the store's
BatchStoreError ==
    /\ run.pc # "finished"
    /\ ~run.broken
    /\ \E broken \in BOOLEAN : run' = store_failure(DB, run, "OperationalError", broken)
    /\ UNCHANGED <<daily, climate_normals, summaries, agg, key, requests, ingested, normal_runs>>

\* The session was left unusable: the first query of the station raises
BatchSessionError ==
    /\ run.pc # "finished"
    /\ run.broken
    /\ run' = next_station(DB, [run EXCEPT
                  !.errors = @ \cup {<<run.station, "PendingRollbackError">>}])
    /\ UNCHANGED <<daily, climate_normals, summaries, agg, key, requests, ingested, normal_runs>>

InitBatch ==
    LET \* Every station has reported from 2024-01-01 to 2024-02-29: the weeks 1 to
        \* 8 and the months January and February of 2024 have a summary.
        BatchDaily ==
            [s \in Stations |-> PeriodData(MonthlyCall(s, 2024, 1), 2, 61)[s]]
    IN
    LET \* The February normal of station 1 as two runs of compute_station_normals
        \* leave it
        TwiceStoredNormal ==
            LET february == {k \in MonthlyNormalKeys : k.month = Some(2)}
                once == compute_station_normals(
                            [daily |-> BatchDaily, climate_normals |-> {}, summaries |-> NoSummaries],
                            1, february, Some(1000))[1]
            IN  compute_station_normals(
                    [daily |-> BatchDaily, climate_normals |-> once, summaries |-> NoSummaries],
                    1, february, Some(1000))[1]
    IN
    LET \* The keys the API handlers ask for while the batch runs
        BatchRaceKeys == {WeeklyCall(1, 2024, 7), MonthlyCall(1, 2024, 1)}
    IN
    /\ key \in BatchRaceKeys
    /\ daily = BatchDaily
    /\ climate_normals = IF key.timescale = "weekly" THEN {} ELSE TwiceStoredNormal
    /\ summaries = NoSummaries
    /\ agg = [call |-> key, done |-> TRUE, result |-> None]
    /\ requests = NoRequests
    /\ ingested = 0
    /\ normal_runs = 0
    /\ run = skip_insufficient(
                 [daily |-> BatchDaily, climate_normals |-> {}, summaries |-> NoSummaries],
                 [NoRun EXCEPT !.pc = "weekly", !.station = 1, !.year = 2024, !.period = 1,
                               !.start_year = 2024, !.end_year = 2024])

NextBatch ==
    \/ BatchIteration
    \/ BatchCommit
    \/ BatchStoreError
    \/ BatchSessionError
    \/ Call(key)
    \/ \E req \in Requests : Lookup(req)
    \/ \E req \in Requests : ReadDaily(req)
    \/ \E req \in Requests : ReadNormal(req)
    \/ \E req \in Requests : Commit(req)
    \/ \E req \in Requests : Refresh(req)

SpecBatch == InitBatch /\ [][NextBatch]_vars

(***************************************************************************)
(* What the claims measure a result against                                *)
(***************************************************************************)
\* The dates of the closed interval of key c on which its station reported
ReportedDays(c) ==
    LET range == period_range(c)
        first == range[1]
        last == range[2]
    IN  {d \in DOMAIN daily[c.station_id] : d >= first /\ d <= last}

\* The dates among them with a rainfall value
RainfallDays(c) ==
    {d \in ReportedDays(c) : daily[c.station_id][d].rainfall_total # None}

\* the sum of v * (number of dates of S whose rainfall is v) over the values v
RECURSIVE WeightedSum(_, _, _)
WeightedSum(table, S, V) ==
    IF V = {} THEN 0
    ELSE LET v == CHOOSE x \in V : TRUE
         IN  v * Cardinality({d \in S : table[d].rainfall_total[1] = v})
             + WeightedSum(table, S, V \ {v})

\* The exact sum of the non-null daily rainfall values in the interval
ExactRainfall(c) ==
    LET table == daily[c.station_id]
    IN  WeightedSum(table, RainfallDays(c),
                    {table[d].rainfall_total[1] : d \in RainfallDays(c)})

IsSummary(r) == Len(r) = 1

AggDone(timescale) == agg.done /\ agg.call.timescale = timescale

(***************************************************************************)
(* Claims about the aggregator                                             *)
(***************************************************************************)
\* C2: compute_monthly_summary returns None whenever days_with_data /
\* days_in_month * 100 < 70 and a summary whenever it is >= 70, with
\* days_in_month the actual length of the month; a produced summary has
\* data_completeness_percent in [70, 100].
C2_MonthlyGate ==
    AggDone("monthly") =>
        LET n == Cardinality(ReportedDays(agg.call))
            len == period_range(agg.call)[3]
        IN  /\ n * 100 < 70 * len => agg.result = None
            /\ n * 100 >= 70 * len =>
                /\ IsSummary(agg.result)
                /\ agg.result[1].days_with_data = n
                /\ agg.result[1].data_completeness_percent >= 700
                /\ agg.result[1].data_completeness_percent <= 1000

\* 15 of the 31 days of January 2024 are populated and no summary is returned
C2_Witness ==
    /\ AggDone("monthly")
    /\ period_range(agg.call)[3] = 31
    /\ Cardinality(ReportedDays(agg.call)) = 15
    /\ agg.result = None

\* C3 (as claimed): compute_dekadal_summary produces a summary only if the
\* days with data are at least 70% of the dekad's calendar length (8 to 11
\* days), and returns None below that fraction.
C3_DekadalGate ==
    AggDone("dekadal") =>
        LET n == Cardinality(ReportedDays(agg.call))
            len == period_range(agg.call)[3]
        IN  /\ IsSummary(agg.result) => n * 100 >= 70 * len
            /\ n * 100 < 70 * len => agg.result = None

\* C4 (as claimed): for every timescale the rainfall_total of a produced
\* summary is the exact sum of the non-null daily rainfall values of the
\* interval, and null when there is none.
C4_ExactSum ==
    (agg.done /\ IsSummary(agg.result)) =>
        agg.result[1].rainfall_total =
            IF RainfallDays(agg.call) = {} THEN None
            ELSE Some(ExactRainfall(agg.call))

\* C4 (amended): the rainfall_total of a produced summary is the sum of the
\* non-null daily rainfall values of the records of the interval, exact in a
\* weekly summary and rounded to one decimal place (0.1 mm) in a monthly,
\* dekadal, seasonal or annual one; it is null when no record of the
\* interval has a rainfall value.
C4_RoundedSum ==
    (agg.done /\ IsSummary(agg.result)) =>
        agg.result[1].rainfall_total =
            IF RainfallDays(agg.call) = {} THEN None
            ELSE IF agg.call.timescale = "weekly"
                 THEN Some(ExactRainfall(agg.call))
                 ELSE Some(Round1(ExactRainfall(agg.call)))

\* a monthly summary over a sum with a digit in the hundredths, with records
\* of the station on both sides of the interval
C4_Witness ==
    /\ AggDone("monthly")
    /\ IsSummary(agg.result)
    /\ ExactRainfall(agg.call) % 10 # 0
    /\ period_range(agg.call)[1] - 1 \in DOMAIN daily[agg.call.station_id]
    /\ period_range(agg.call)[2] + 1 \in DOMAIN daily[agg.call.station_id]

(***************************************************************************)
(* Claims about the orchestrator                                           *)
(***************************************************************************)
\* The completeness gate of each timescale, on the daily records stored now
GatePassed(c) ==
    LET n == Cardinality(ReportedDays(c))
        len == period_range(c)[3]
    IN  IF c.timescale = "weekly" THEN n >= 5
        ELSE IF c.timescale = "dekadal" THEN n >= 7
        ELSE IF c.timescale = "annual" THEN n * 100 >= 80 * len
        ELSE n * 100 >= 70 * len

\* The stored rows that carry the natural key of c
StoredRows(c) ==
    {row \in summaries[c.timescale] :
        /\ row.station_id = c.station_id /\ row.year = c.year
        /\ IF c.timescale = "weekly" THEN row.week_number = c.week_number
           ELSE IF c.timescale = "monthly" THEN row.month = c.month
           ELSE IF c.timescale = "dekadal" THEN row.month = c.month /\ row.dekad = c.dekad
           ELSE IF c.timescale = "seasonal" THEN row.season = c.season
           ELSE TRUE}

\* the key a stored row of table t belongs to
RowCall(t, row) ==
    IF t = "weekly" THEN WeeklyCall(row.station_id, row.year, row.week_number)
    ELSE IF t = "monthly" THEN MonthlyCall(row.station_id, row.year, row.month)
    ELSE IF t = "dekadal" THEN DekadalCall(row.station_id, row.year, row.month, row.dekad)
    ELSE IF t = "seasonal" THEN SeasonalCall(row.station_id, row.year, row.season)
    ELSE AnnualCall(row.station_id, row.year)

\* invocation req takes the step, and nxt is what it becomes
Stepped(req) == CopiesIn(req, requests') < CopiesIn(req, requests)

Becomes(req, nxt) == requests' = (requests (-) SetToBag({req})) (+) SetToBag({nxt})

Writes(log) == {i \in 1..Len(log) : log[i] = "insert"}

\* C1: for every timescale, an invocation that finds no cached row and
\* insufficient data returns None and leaves the store as it is; and every
\* stored row belongs to a key whose data pass the completeness gate, so a
\* row exists only after some computation passed it.
C1_NoneStep ==
    \A req \in BagToSet(requests) :
        (req.pc = "compute" /\ ~GatePassed(req.call) /\ Stepped(req)) =>
            /\ summaries' = summaries
            /\ \E nxt \in BagToSet(requests') :
                /\ Becomes(req, nxt)
                /\ nxt.pc = "done" /\ nxt.ret = None /\ Writes(nxt.log) = {}

C1_RowsPassedGate ==
    \A t \in Timescales : \A row \in summaries[t] : GatePassed(RowCall(t, row))

C1_InsufficientNeverCached == []C1_RowsPassedGate /\ [][C1_NoneStep]_vars

\* an invocation has returned None after the cache lookup and the daily
\* query, and the table of its timescale is empty
C1_Witness ==
    \E req \in BagToSet(requests) :
        /\ req.pc = "done" /\ req.ret = None
        /\ req.log = <<"select_cached", "select_daily">>
        /\ ~GatePassed(req.call)
        /\ summaries[req.call.timescale] = {}

\* C5: concurrent invocations for the same uncached key are not
\* coordinated: as long as no row of the key is stored, a cache lookup
\* misses and goes on to compute, whatever the other invocations for the
\* key are doing (computing, or holding an insert not yet committed).
C5_LookupStep ==
    \A req \in BagToSet(requests) :
        (req.pc = "lookup" /\ StoredRows(req.call) = {} /\ Stepped(req)) =>
            \E nxt \in BagToSet(requests') :
                Becomes(req, nxt) /\ nxt.pc = "compute"

C5_Uncoordinated == [][C5_LookupStep]_vars

\* both invocations missed the cache, both computed, and both are about to
\* insert a row for the same key
C5_Witness ==
    \E a \in BagToSet(requests) : \E b \in BagToSet(requests) :
        /\ a.pc = "commit" /\ b.pc = "commit" /\ a.call = b.call
        /\ a # b \/ CopiesIn(a, requests) >= 2
        /\ StoredRows(a.call) = {}

\* C7: an invocation performs its reads (cache lookup, daily records,
\* normal lookup) before its write and attempts at most one write; a cache
\* hit attempts none.  A failed write ends the invocation with the store's
\* exception as its outcome: no second attempt and no summary returned.
C7_LogOrder ==
    \A req \in BagToSet(requests) :
        /\ Cardinality(Writes(req.log)) <= 1
        /\ \A i \in Writes(req.log) : \A j \in 1..Len(req.log) :
               req.log[j] \in {"select_cached", "select_daily", "select_normal"} => j < i
        /\ (req.pc = "done" /\ req.log = <<"select_cached">>) => Len(req.ret) = 1
        /\ (req.pc = "done" /\ IsRaise(req.ret)) => req.obj = None

C7_WriteStep ==
    \A req \in BagToSet(requests) :
        (req.pc = "commit" /\ Stepped(req)) =>
            \E nxt \in BagToSet(requests') :
                /\ Becomes(req, nxt)
                /\ \/ /\ nxt.pc = "refresh"
                      /\ summaries'[req.call.timescale] =
                             summaries[req.call.timescale] \cup {nxt.obj[1]}
                   \/ /\ nxt.pc = "done" /\ summaries' = summaries
                      /\ nxt.ret \in {Raise("IntegrityError"), Raise("OperationalError")}

C7_Returned ==
    \A req \in BagToSet(requests) : req.pc = "done" => ~Stepped(req)

C7_ReadsThenOneWrite ==
    []C7_LogOrder /\ [][C7_WriteStep /\ C7_Returned]_vars

\* an invocation ended by the duplicate-key rejection of its only write
C7_Witness ==
    \E req \in BagToSet(requests) :
        /\ req.pc = "done" /\ req.ret = Raise("IntegrityError")
        /\ req.log[Len(req.log)] = "insert"
        /\ Cardinality(Writes(req.log)) = 1

\* C9: a stored summary is never invalidated: no step removes or alters a
\* stored row, and an invocation whose key has a stored row returns that
\* row from the cache lookup, without recomputing and without writing, also
\* when daily records were ingested or a normal was stored after the row.
C9_HitStep ==
    \A req \in BagToSet(requests) :
        (req.pc = "lookup" /\ StoredRows(req.call) # {} /\ Stepped(req)) =>
            /\ summaries' = summaries
            /\ \E nxt \in BagToSet(requests') :
                /\ Becomes(req, nxt)
                /\ nxt.pc = "done" /\ nxt.log = <<"select_cached">>
                /\ Len(nxt.ret) = 1 /\ nxt.ret[1] \in StoredRows(req.call)

C9_RowsKept == \A t \in Timescales : summaries[t] \subseteq summaries'[t]

C9_NoInvalidation == [][C9_HitStep /\ C9_RowsKept]_vars

\* a cache hit returned a row that a computation on the present daily
\* records and normals would no longer produce
C9_Witness ==
    \E req \in BagToSet(requests) :
        /\ req.pc = "done" /\ req.log = <<"select_cached">>
        /\ req.ret[1] \in StoredRows(req.call)
        /\ LET fresh == compute_summary(DB, req.call)
           IN  /\ Len(fresh) = 1
               /\ \E f \in DOMAIN fresh[1] : fresh[1][f] # req.ret[1][f]

(***************************************************************************)
(* Claims about the persistence of climate normals                         *)
(***************************************************************************)
\* C10 (as claimed): however often compute_station_normals has run, the
\* store holds at most one ClimateNormal per (station, reference window,
\* timescale, sub-period), and a normal lookup finds zero or one record.
C10_OneNormalPerKey ==
    /\ \A a \in climate_normals : \A b \in climate_normals :
           ( /\ a.station_id = b.station_id
             /\ a.normal_period_start = b.normal_period_start
             /\ a.normal_period_end = b.normal_period_end
             /\ a.timescale = b.timescale
             /\ a.month = b.month /\ a.dekad = b.dekad /\ a.season = b.season )
           => a = b
    /\ agg.done => ~IsRaise(agg.result)

(***************************************************************************)
(* Claims about the store under concurrent writers and the batch run       *)
(***************************************************************************)
\* C6: under every interleaving of get_or_compute invocations and batch
\* population, each summary table holds at most one row per natural key.
C6_OneRowPerKey ==
    \A t \in Timescales : \A a \in summaries[t] : \A b \in summaries[t] :
        RowCall(t, a) = RowCall(t, b) => a = b

\* an invocation and the batch raced for the key: the invocation's row is
\* stored and the batch's insert was rejected
C6_Witness ==
    /\ \E e \in run.errors : e[2] = "IntegrityError"
    /\ \E req \in BagToSet(requests) :
           /\ Writes(req.log) # {}
           /\ Len(req.ret) = 1 /\ req.ret[1] \in StoredRows(req.call)
    /\ Cardinality(StoredRows(key)) = 1

\* the keys a batch (station, timescale) visits
UnitCalls(u) ==
    {period_call(u[2], u[1], y, p) :
        y \in run.start_year..run.end_year, p \in 1..last_period(u[2], run.end_year)}

\* C8: the batch population commits once per unit of work, a unit being one
\* batch_populate_*_summaries call (one station and timescale): every key
\* with sufficient data of every unit that has returned has its row stored,
\* whatever fails afterwards, and stored rows stay stored.
C8_UnitsPersisted ==
    \A u \in run.completed : \A c \in UnitCalls(u) :
        GatePassed(c) => StoredRows(c) # {}

C8_RowsStay == \A t \in Timescales : \A row \in summaries[t] : row \in summaries'[t]

MinYearsRequired == 20

MonthlyNormalMinDays == 21

DekadalNormalMinDays == 7

SeasonalNormalMinDays == 63

AnnualNormalMinDays == 292

\* <<start_date, end_date>> of the instance of sub-period k in a year
normal_year_range(k, year) ==
    \* the days_in_month table of compute_monthly_normal and
    \* compute_dekadal_normal
    LET normal_days_in_month == <<31, 29, 31, 30, 31, 30, 31, 31, 30, 31, 30, 31>>
    IN
    IF k.timescale = "monthly" THEN
        LET last_day == IF k.month[1] = 2
                        THEN (IF is_leap_year(year) THEN 29 ELSE 28)
                        ELSE normal_days_in_month[k.month[1]]
        IN  <<date(year, k.month[1], 1), date(year, k.month[1], last_day)>>
    ELSE IF k.timescale = "dekadal" THEN
        LET start_day == IF k.dekad[1] = 1 THEN 1 ELSE IF k.dekad[1] = 2 THEN 11 ELSE 21
            end_day == IF k.dekad[1] = 1 THEN 10 ELSE IF k.dekad[1] = 2 THEN 20
                       ELSE normal_days_in_month[k.month[1]]
            actual_end_day == IF k.month[1] = 2 /\ k.dekad[1] = 3
                              THEN (IF is_leap_year(year) THEN 29 ELSE 28)
                              ELSE end_day
        IN  <<date(year, k.month[1], start_day), date(year, k.month[1], actual_end_day)>>
    ELSE IF k.timescale = "seasonal" THEN
        IF k.season[1] = "MAM" THEN <<date(year, 3, 1), date(year, 5, 31)>>
        ELSE IF k.season[1] = "JJA" THEN <<date(year, 6, 1), date(year, 8, 31)>>
        ELSE IF k.season[1] = "SON" THEN <<date(year, 9, 1), date(year, 11, 30)>>
        ELSE <<date(year, 12, 1),
               date(year + 1, 2, IF ~is_leap_year(year + 1) THEN 28 ELSE 29)>>
    ELSE <<date(year, 1, 1), date(year, 12, 31)>>

\* the number of daily records that makes a year's instance valid
normal_min_days(k) ==
    IF k.timescale = "monthly" THEN MonthlyNormalMinDays
    ELSE IF k.timescale = "dekadal" THEN DekadalNormalMinDays
    ELSE IF k.timescale = "seasonal" THEN SeasonalNormalMinDays
    ELSE AnnualNormalMinDays

\* one iteration of the loop over the years: the value appended to
\* rainfall_yearly
normal_yearly_value(db, station_id, k, year) ==
    LET range == normal_year_range(k, year)
        data == daily_data(db, station_id, range[1], range[2])
        values == rainfall_values(db, station_id, data)
    IN  IF Cardinality(data) >= normal_min_days(k)
        THEN (IF values # {}
              THEN Some(sum_rainfall(db.daily[station_id], values, range[1], range[2]))
              ELSE None)
        ELSE None

\* one iteration of the loop over the years: the value appended to
\* tmax_yearly, statistics.mean(tmax_values) held in hundredths of a degree
normal_yearly_tmax(db, station_id, k, year) ==
    LET range == normal_year_range(k, year)
        data == daily_data(db, station_id, range[1], range[2])
        tmax_values == {d \in data : db.daily[station_id][d].temp_max # None}
        total(d) == db.daily[station_id][d].temp_max[1]
    IN  IF Cardinality(data) >= normal_min_days(k)
        THEN (IF tmax_values # {}
              THEN Some(RoundDiv(10 * sum_days([d \in tmax_values |-> total(d)],
                                              range[1], range[2]),
                                 Cardinality(tmax_values)))
              ELSE None)
        ELSE None

\* <<years_with_data, round(completeness, 1)>>, the latter in tenths of a
\* percent
calculate_data_quality(yearly_values, expected_years) ==
    LET years_with_data ==
            Cardinality({i \in 1..Len(yearly_values) : yearly_values[i] # None})
    IN  <<years_with_data,
          IF expected_years > 0 THEN RoundDiv(years_with_data * 1000, expected_years)
          ELSE 0>>

RECURSIVE sum_values(_, _)
sum_values(yearly_values, n) ==
    IF n = 0 THEN 0
    ELSE sum_values(yearly_values, n - 1)
         + (IF yearly_values[n] # None THEN yearly_values[n][1] ELSE 0)

\* round(statistics.mean(values), 1) of the values that are not None; None
\* if there is none
calculate_normal(yearly_values) ==
    LET count == Cardinality({i \in 1..Len(yearly_values) : yearly_values[i] # None})
    IN  IF count = 0 THEN None
        ELSE Some(10 * RoundDiv(sum_values(yearly_values, Len(yearly_values)), 10 * count))

normal_insufficient_lax(years_with_data) == years_with_data < MinYearsRequired - 1

\* years_with_data < min_years_required
normal_insufficient(years_with_data) == years_with_data < MinYearsRequired

\* what compute_*_normal returns once the loop has ended
normal_result(station_id, k, rainfall_yearly, tmax_yearly) ==
    LET expected_years == NormalPeriodEnd - NormalPeriodStart + 1
        quality == calculate_data_quality(rainfall_yearly, expected_years)
    IN  IF normal_insufficient(quality[1]) THEN None
        ELSE Some([
            station_id |-> station_id,
            normal_period_start |-> NormalPeriodStart,
            normal_period_end |-> NormalPeriodEnd,
            timescale |-> k.timescale,
            month |-> k.month,
            dekad |-> k.dekad,
            season |-> k.season,
            rainfall_normal |-> calculate_normal(rainfall_yearly),
            temp_max_normal |-> calculate_normal(tmax_yearly),
            years_with_data |-> quality[1],
            data_completeness_percent |-> quality[2]])

(***************************************************************************)
(* The normal engine on its own (SpecEngine)                               *)
(* The inputs are a sub-period and the daily records of the reference      *)
(* window; agg carries the loop: [call, done, result, year,                *)
(* rainfall_yearly, tmax_yearly].                                          *)
(***************************************************************************)
EngineKeys ==
    {k \in MonthlyNormalKeys : k.month[1] \in {1, 2}}
    \cup {k \in DekadalNormalKeys : k.month[1] = 2 /\ k.dekad[1] = 3}
    \cup {k \in SeasonalNormalKeys : k.season[1] \in {"MAM", "DJF"}}
    \cup AnnualNormalKeys

\* A daily table of station 1: the first `full` years of the window have
\* records on the first n days of the sub-period, the year after them on
\* the first n - 1 days, the later years none.  With no_rain_first, the
\* records of the first year carry no rainfall value.  The records of the
\* first tmax_years years carry a temp_max, the others none.
InitEngine ==
    LET EngineData(k, full, n, no_rain_first, tmax_years) ==
            LET pat == RainPatterns[2]
                first_end == normal_year_range(k, NormalPeriodStart)[2]
                dates == {normal_year_range(k, y)[1] + i :
                              y \in NormalPeriodStart..(NormalPeriodStart + full - 1),
                              i \in 0..(n - 1)}
                         \cup {normal_year_range(k, NormalPeriodStart + full)[1] + i :
                              i \in 0..(n - 2)}
            IN  [s \in Stations |->
                    IF s = 1
                    THEN [d \in dates |->
                             [rainfall_total |->
                                 IF no_rain_first /\ d <= first_end THEN None
                                 ELSE pat[(d % Len(pat)) + 1],
                              temp_max |->
                                 IF d <= normal_year_range(
                                             k, NormalPeriodStart + tmax_years - 1)[2]
                                 THEN Some(300 + (d % 7)) ELSE None]]
                    ELSE [d \in {date(NormalPeriodStart, 1, 1)} |->
                             [rainfall_total |-> Some(99900),
                              temp_max |-> Some(300)]]]
    IN
    \E k \in EngineKeys, full \in {MinYearsRequired - 1, MinYearsRequired},
       no_rain_first \in BOOLEAN, tmax_years \in {1, MinYearsRequired} :
      \E n \in {normal_min_days(k), normal_min_days(k) + 1} :
        /\ daily = EngineData(k, full, n, no_rain_first, tmax_years)
        /\ climate_normals = {}
        /\ summaries = NoSummaries
        /\ agg = [call |-> k, done |-> FALSE, result |-> None,
                  year |-> NormalPeriodStart, rainfall_yearly |-> <<>>,
                  tmax_yearly |-> <<>>]
        /\ key = k
        /\ requests = NoRequests
        /\ ingested = 0
        /\ normal_runs = 0
        /\ run = NoRun

\* for year in range(period_start, period_end + 1): one daily query
EngineYear ==
    /\ ~agg.done
    /\ agg.year <= NormalPeriodEnd
    /\ agg' = [agg EXCEPT
                  !.year = agg.year + 1,
                  !.rainfall_yearly =
                      Append(agg.rainfall_yearly,
                             normal_yearly_value(DB, 1, agg.call, agg.year)),
                  !.tmax_yearly =
                      Append(agg.tmax_yearly,
                             normal_yearly_tmax(DB, 1, agg.call, agg.year))]
    /\ UNCHANGED <<daily, climate_normals, summaries, key, requests, ingested, normal_runs, run>>

\* after the loop: the data quality check and the returned dictionary
EngineReturn ==
    /\ ~agg.done
    /\ agg.year > NormalPeriodEnd
    /\ agg' = [agg EXCEPT !.done = TRUE,
                          !.result = normal_result(1, agg.call, agg.rainfall_yearly,
                                                  agg.tmax_yearly)]
    /\ UNCHANGED <<daily, climate_normals, summaries, key, requests, ingested, normal_runs, run>>

NextEngine == EngineYear \/ EngineReturn

SpecEngine == InitEngine /\ [][NextEngine]_vars

(***************************************************************************)
(* Claims about the climate normal engine                                  *)
(***************************************************************************)
\* the years of the reference window that contribute a value to the
\* normal of sub-period k: the records found in the year's instance reach
\* the engine's minimum and one of them at least carries a rainfall value
QualifyingYears(k) ==
    {y \in NormalPeriodStart..NormalPeriodEnd :
        LET range == normal_year_range(k, y)
            found == {d \in DOMAIN daily[1] : range[1] <= d /\ d <= range[2]}
        IN  /\ Cardinality(found) >= normal_min_days(k)
            /\ \E d \in found : daily[1][d].rainfall_total # None}

EngineDone == agg.done /\ agg.call \in EngineKeys /\ "rainfall_yearly" \in DOMAIN agg

\* C11: compute_*_normal returns a normal if and only if at least 20 years
\* of the window qualify (with 19 it returns None, not a record of zeros),
\* and the years_with_data it reports is the number of qualifying years.
C11_NormalIffTwentyYears ==
    EngineDone =>
        LET q == Cardinality(QualifyingYears(agg.call))
        IN  /\ agg.result # None <=> q >= 20
            /\ agg.result # None => agg.result[1].years_with_data = q

\* a normal produced from exactly 20 qualifying years
C11_Witness ==
    /\ EngineDone
    /\ agg.result # None
    /\ agg.result[1].years_with_data = 20
    /\ Cardinality(QualifyingYears(agg.call)) = 20

\* the aggregator call for the instance of sub-period k in a year
YearCall(k, year) ==
    IF k.timescale = "monthly" THEN MonthlyCall(1, year, k.month[1])
    ELSE IF k.timescale = "dekadal" THEN DekadalCall(1, year, k.month[1], k.dekad[1])
    ELSE IF k.timescale = "seasonal" THEN SeasonalCall(1, year, k.season[1])
    ELSE AnnualCall(1, year)

\* C12 (as claimed): the year the engine has just visited contributes a
\* value to the normal exactly when the aggregator of the timescale yields
\* a valid summary for that year's instance of the sub-period.
C12_AgreesWithAggregator ==
    ("rainfall_yearly" \in DOMAIN agg /\ agg.rainfall_yearly # <<>>) =>
        LET year == agg.year - 1
            value == agg.rainfall_yearly[Len(agg.rainfall_yearly)]
        IN  value # None <=> compute_summary(DB, YearCall(agg.call, year)) # None

(***************************************************************************)
(* Rainy season onset and cessation (app/utils/agro.py)                    *)
(* daily_rainfall, a list of (date, rainfall_mm) pairs, is held as the     *)
(* dictionary rainfall_dict built from it: a function from the dates of    *)
(* the list to rainfall in hundredths of a millimetre.                     *)
(***************************************************************************)
\* millimetres, in hundredths
mm(x) == x * 100

onset_threshold_mm == 20

onset_days == 3

false_start_dry_spell_days == 7

false_start_check_days == 20

dry_day_threshold_mm == 1

cessation_threshold_mm == 10

cessation_days == 20

\* for i in range(onset_days): <<valid_onset_window, cumulative>>
RECURSIVE onset_window(_, _, _, _)
onset_window(rainfall_dict, current_date, i, cumulative) ==
    IF i = onset_days THEN <<TRUE, cumulative>>
    ELSE LET check_date == current_date + i
         IN  IF check_date \in DOMAIN rainfall_dict
             THEN onset_window(rainfall_dict, current_date, i + 1,
                               cumulative + rainfall_dict[check_date])
             ELSE <<FALSE, cumulative>>

onset_threshold_exceeded(valid_onset_window, cumulative) ==
    valid_onset_window /\ cumulative > mm(onset_threshold_mm)

\* valid_onset_window and cumulative >= onset_threshold_mm
onset_threshold_met(valid_onset_window, cumulative) ==
    valid_onset_window /\ cumulative >= mm(onset_threshold_mm)

dry_day_recorded(rainfall_dict, check_date) ==
    check_date \in DOMAIN rainfall_dict
    /\ rainfall_dict[check_date] < mm(dry_day_threshold_mm)

\* a day of the false start check that adds to consecutive_dry_days: its
\* rainfall is below 1.0, or it has no record ("assume dry")
dry_day(rainfall_dict, check_date) ==
    IF check_date \in DOMAIN rainfall_dict
    THEN rainfall_dict[check_date] < mm(dry_day_threshold_mm)
    ELSE TRUE

\* for i in range(false_start_check_days): is_false_start
RECURSIVE is_false_start(_, _, _, _)
is_false_start(rainfall_dict, current_date, i, consecutive_dry_days) ==
    IF i = false_start_check_days THEN FALSE
    ELSE LET check_date == current_date + onset_days + i
         IN  IF dry_day(rainfall_dict, check_date)
             THEN (IF consecutive_dry_days + 1 >= false_start_dry_spell_days
                   THEN TRUE
                   ELSE is_false_start(rainfall_dict, current_date, i + 1,
                                       consecutive_dry_days + 1))
             ELSE is_false_start(rainfall_dict, current_date, i + 1, 0)

\* one iteration of the while loop: current_date is returned
onset_found(rainfall_dict, current_date) ==
    LET w == onset_window(rainfall_dict, current_date, 0, 0)
    IN  onset_threshold_met(w[1], w[2])
        /\ ~is_false_start(rainfall_dict, current_date, 0, 0)

\* while current_date <= end_search_date: the first date of lo..hi that is
\* returned, None if the loop ends (the dates are visited in order; the
\* range is split in halves to keep the nesting shallow)
RECURSIVE onset_scan(_, _, _)
onset_scan(rainfall_dict, lo, hi) ==
    IF lo > hi THEN None
    ELSE IF lo = hi THEN (IF onset_found(rainfall_dict, lo) THEN Some(lo) ELSE None)
    ELSE LET mid == (lo + hi) \div 2
             early == onset_scan(rainfall_dict, lo, mid)
         IN  IF early # None THEN early ELSE onset_scan(rainfall_dict, mid + 1, hi)

detect_onset(rainfall_dict, start_search_date, end_search_date) ==
    onset_scan(rainfall_dict, start_search_date, end_search_date)

\* the dates for which the loop set is_false_start before it ended
false_starts(rainfall_dict, start_search_date, end_search_date) ==
    LET onset == detect_onset(rainfall_dict, start_search_date, end_search_date)
        last == IF onset # None THEN onset[1] - 1 ELSE end_search_date
    IN  {d \in start_search_date..last :
            LET w == onset_window(rainfall_dict, d, 0, 0)
            IN  onset_threshold_met(w[1], w[2])
                /\ is_false_start(rainfall_dict, d, 0, 0)}

\* for i in range(cessation_days): <<data_available, cumulative>>
RECURSIVE cessation_window(_, _, _, _)
cessation_window(rainfall_dict, current_date, i, cumulative) ==
    IF i = cessation_days THEN <<TRUE, cumulative>>
    ELSE LET check_date == current_date + i
         IN  IF check_date \in DOMAIN rainfall_dict
             THEN cessation_window(rainfall_dict, current_date, i + 1,
                                   cumulative + rainfall_dict[check_date])
             ELSE <<FALSE, cumulative>>

cessation_threshold_reached(data_available, cumulative) ==
    data_available /\ cumulative <= mm(cessation_threshold_mm)

\* data_available and cumulative < cessation_threshold_mm
cessation_threshold_met(data_available, cumulative) ==
    data_available /\ cumulative < mm(cessation_threshold_mm)

\* while search_back_date >= onset_date: the last date of lo..hi with
\* significant rain, None if there is none (the range is split in halves)
RECURSIVE search_back(_, _, _)
search_back(rainfall_dict, lo, hi) ==
    IF lo > hi THEN None
    ELSE IF lo = hi
         THEN (IF lo \in DOMAIN rainfall_dict
                  /\ rainfall_dict[lo] >= mm(dry_day_threshold_mm)
               THEN Some(lo) ELSE None)
    ELSE LET mid == (lo + hi) \div 2
             late == search_back(rainfall_dict, mid + 1, hi)
         IN  IF late # None THEN late ELSE search_back(rainfall_dict, lo, mid)

\* one iteration of the while loop: cessation occurred
cessation_found(rainfall_dict, current_date) ==
    LET w == cessation_window(rainfall_dict, current_date, 0, 0)
    IN  cessation_threshold_met(w[1], w[2])

\* while current_date <= end_search_date: the first date of lo..hi at which
\* cessation occurred, None if the loop ends (the range is split in halves)
RECURSIVE cessation_scan(_, _, _)
cessation_scan(rainfall_dict, lo, hi) ==
    IF lo > hi THEN None
    ELSE IF lo = hi THEN (IF cessation_found(rainfall_dict, lo) THEN Some(lo) ELSE None)
    ELSE LET mid == (lo + hi) \div 2
             early == cessation_scan(rainfall_dict, lo, mid)
         IN  IF early # None THEN early ELSE cessation_scan(rainfall_dict, mid + 1, hi)

detect_cessation(rainfall_dict, onset_date, end_search_date) ==
    LET current_date == cessation_scan(rainfall_dict, onset_date + 1, end_search_date)
        last_rainy == search_back(rainfall_dict, onset_date, current_date[1] - 1)
    IN  IF current_date = None THEN None
        ELSE IF last_rainy # None THEN last_rainy
        ELSE Some(current_date[1] - 1)

\* SEASON_WINDOWS: the search window dates of a season, None for a season
\* that is not in it
season_windows(year, season) ==
    IF season = "MAM"
    THEN Some([onset_start |-> date(year, 3, 1), onset_end |-> date(year, 4, 30),
               cessation_end |-> date(year, 6, 30)])
    ELSE IF season = "JJA"
    THEN Some([onset_start |-> date(year, 6, 1), onset_end |-> date(year, 7, 15),
               cessation_end |-> date(year, 9, 30)])
    ELSE None

\* the query of compute_onset_cessation_for_season and its conversion:
\* (summary.date, summary.rainfall_total if summary.rainfall_total else 0.0)
season_daily_rainfall(db, station_id, onset_start, cessation_end) ==
    LET table == db.daily[station_id]
    IN  [d \in daily_data(db, station_id, onset_start, cessation_end) |->
            IF table[d].rainfall_total # None /\ table[d].rainfall_total[1] # 0
            THEN table[d].rainfall_total[1]
            ELSE 0]

season_status_detected(onset_date, cessation_date) ==
    IF onset_date # None THEN "detected" ELSE "not_found"

\* if onset_date and cessation_date: ... elif onset_date and not
\* cessation_date: ... else: ...
season_status(onset_date, cessation_date) ==
    IF onset_date # None /\ cessation_date # None THEN "detected"
    ELSE IF onset_date # None /\ cessation_date = None THEN "pending"
    ELSE "not_found"

compute_onset_cessation_for_season(db, station_id, year, season) ==
    LET windows == season_windows(year, season)
        onset_start == windows[1].onset_start
        onset_end == windows[1].onset_end
        cessation_end == windows[1].cessation_end
        daily_rainfall == season_daily_rainfall(db, station_id, onset_start, cessation_end)
        onset_date == detect_onset(daily_rainfall, onset_start, onset_end)
        cessation_date == IF onset_date # None
                          THEN detect_cessation(daily_rainfall, onset_date[1], cessation_end)
                          ELSE None
    IN  IF windows = None THEN
            [station_id |-> station_id, year |-> year, season |-> season,
             onset_date |-> None, cessation_date |-> None,
             season_length_days |-> None,
             search_window_start |-> None, search_window_end |-> None,
             status |-> "not_applicable"]
        ELSE IF DOMAIN daily_rainfall = {} THEN
            [station_id |-> station_id, year |-> year, season |-> season,
             onset_date |-> None, cessation_date |-> None,
             season_length_days |-> None,
             search_window_start |-> Some(onset_start),
             search_window_end |-> Some(cessation_end),
             status |-> "no_data"]
        ELSE
            [station_id |-> station_id, year |-> year, season |-> season,
             onset_date |-> onset_date, cessation_date |-> cessation_date,
             season_length_days |->
                 IF onset_date # None /\ cessation_date # None
                 THEN Some(cessation_date[1] - onset_date[1]) ELSE None,
             search_window_start |-> Some(onset_start),
             search_window_end |-> Some(cessation_end),
             status |-> season_status(onset_date, cessation_date)]

(***************************************************************************)
(* Onset and cessation on their own (SpecAgro)                             *)
(* agg.call names the function applied and its arguments; the single step  *)
(* of a behaviour applies it.  The daily table is read by                  *)
(* compute_onset_cessation_for_season only.                                *)
(***************************************************************************)
\* days covered by a rainfall series handed to detect_onset
SeriesDays == 33

AgroBase == date(2024, 3, 1)

AgroCall(fn, daily_rainfall, start, end, onset_date, year, season) ==
    [fn |-> fn, daily_rainfall |-> daily_rainfall, start |-> start, end |-> end,
     onset_date |-> onset_date, year |-> year, season |-> season]

NoDaily == [s \in Stations |-> <<>>]

InitAgro ==
    LET \* rainfall of three consecutive days, -1 for a day without a record
        OnsetRuns == << <<1000, 500, 500>>, <<1000, 500, 475>>, <<1500, -1, 1500>> >>
    IN
    LET \* The daily table of a season of 2024, by variant: 1 no record of the
        \* station; 2 records just outside the search window only; 3 rain of 1 mm
        \* on every day of the window; 4 the same with 20 mm in three days from the
        \* eleventh day; 5 as 4, with 0.25 mm a day from the forty-first day on;
        \* 6 records without a rainfall value on every day of the window; 7 rain
        \* of 25 mm on the first day of the window, then 1 mm on every fifth day
        SeasonData(season, variant) ==
            LET w == season_windows(2024, IF season \in {"MAM", "JJA"} THEN season ELSE "MAM")[1]
                first == w.onset_start
                last == w.cessation_end
                value(d) ==
                    IF variant = 6 THEN None
                    ELSE IF variant = 2 THEN Some(2000)
                    ELSE IF variant \in {4, 5} /\ d \in (first + 10)..(first + 12)
                         THEN Some(OnsetRuns[1][d - first - 9])
                    ELSE IF variant = 5 /\ d >= first + 40 THEN Some(25)
                    ELSE IF variant = 7
                         THEN (IF d = first THEN Some(2500)
                               ELSE IF (d - first) % 5 = 3 THEN Some(100) ELSE Some(0))
                    ELSE Some(100)
                dates == IF variant = 1 THEN {}
                         ELSE IF variant = 2 THEN {first - 1, last + 1}
                         ELSE first..last
            IN  [s \in Stations |->
                    IF s = 1 THEN [d \in dates |-> [rainfall_total |-> value(d)]]
                    ELSE [d \in {first} |-> [rainfall_total |-> Some(99900)]]]
    IN
    LET \* A series that starts on the onset date: p days of rainfall `wet`, then
        \* days of rainfall `low` up to n days in all; with gap, the sixth of the
        \* low days has no record
        CessationCalls ==
            LET CessationSeries(p, wet, low, n, gap) ==
                    [d \in {x \in AgroBase..(AgroBase + n - 1) : ~(gap /\ x = AgroBase + p + 5)} |->
                        IF d < AgroBase + p THEN wet ELSE low]
            IN
            {AgroCall("detect_cessation", CessationSeries(p, wet, low, p + n, gap),
                      0, AgroBase + p + e, AgroBase, 0, "") :
                p \in {1, 3, 12}, wet \in {100, 75}, low \in {50, 25, 0},
                n \in {19, 20, 30}, gap \in BOOLEAN, e \in {-1, 0, 10}}
    IN
    LET \* A series of 1 mm days with a three day run t starting on day a, a second
        \* run of 20 mm ten days later (if second), and, from o days after the
        \* first run, len days that are dry: rainfall `dry`, or no record for -1
        OnsetCalls ==
            LET OnsetSeries(a, t, o, len, dry, second) ==
                    LET first == AgroBase + a
                        spell == (first + 3 + o)..(first + 3 + o + len - 1)
                        value(d) ==
                            IF d \in first..(first + 2) THEN OnsetRuns[t][d - first + 1]
                            ELSE IF second /\ d \in (first + 10)..(first + 12)
                                 THEN OnsetRuns[1][d - first - 9]
                            ELSE IF d \in spell THEN dry
                            ELSE 100
                    IN  [d \in {x \in AgroBase..(AgroBase + SeriesDays - 1) : value(x) >= 0} |-> value(d)]
            IN
            {AgroCall("detect_onset", OnsetSeries(a, t, o, len, dry, second),
                      AgroBase, AgroBase + a + e, 0, 0, "") :
                a \in {0, 2}, t \in 1..Len(OnsetRuns), o \in {0, 13, 14}, len \in {6, 7},
                dry \in {0, 75, -1}, second \in BOOLEAN, e \in {0, 9, 10}}
    IN
    /\ \/ /\ agg \in {[call |-> c, done |-> FALSE, result |-> None, rejected |-> {}] :
                         c \in OnsetCalls \cup CessationCalls}
          /\ daily = NoDaily
       \/ \E season \in {"MAM", "JJA", "SON", "DJF"}, variant \in 1..7 :
            /\ agg = [call |-> AgroCall("season", <<>>, 0, 0, 0, 2024, season),
                      done |-> FALSE, result |-> None, rejected |-> {}]
            /\ daily = SeasonData(season, variant)
    /\ key = agg.call
    /\ climate_normals = {}
    /\ summaries = NoSummaries
    /\ requests = NoRequests
    /\ ingested = 0
    /\ normal_runs = 0
    /\ run = NoRun

AgroOnset ==
    /\ ~agg.done
    /\ agg.call.fn = "detect_onset"
    /\ agg' = [agg EXCEPT !.done = TRUE,
                          !.result = detect_onset(agg.call.daily_rainfall,
                                                  agg.call.start, agg.call.end),
                          !.rejected = false_starts(agg.call.daily_rainfall,
                                                    agg.call.start, agg.call.end)]
    /\ UNCHANGED <<daily, climate_normals, summaries, key, requests, ingested, normal_runs, run>>

AgroCessation ==
    /\ ~agg.done
    /\ agg.call.fn = "detect_cessation"
    /\ agg' = [agg EXCEPT !.done = TRUE,
                          !.result = detect_cessation(agg.call.daily_rainfall,
                                                      agg.call.onset_date, agg.call.end)]
    /\ UNCHANGED <<daily, climate_normals, summaries, key, requests, ingested, normal_runs, run>>

AgroSeason ==
    /\ ~agg.done
    /\ agg.call.fn = "season"
    /\ agg' = [agg EXCEPT !.done = TRUE,
                          !.result = compute_onset_cessation_for_season(
                                         DB, 1, agg.call.year, agg.call.season)]
    /\ UNCHANGED <<daily, climate_normals, summaries, key, requests, ingested, normal_runs, run>>

NextAgro == AgroOnset \/ AgroCessation \/ AgroSeason

SpecAgro == InitAgro /\ [][NextAgro]_vars

(***************************************************************************)
(* Claims about onset and cessation                                        *)
(***************************************************************************)
OnsetDone == agg.done /\ agg.call.fn = "detect_onset"

Recorded(series, d) == d \in DOMAIN series

\* rainfall is recorded for d, d+1 and d+2 and sums to 20 mm or more
OnsetRun(series, d) ==
    /\ \A j \in d..(d + 2) : Recorded(series, j)
    /\ series[d] + series[d + 1] + series[d + 2] >= 2000

\* a day with less than 1 mm, or without a record
Dry(series, d) == Recorded(series, d) => series[d] < 100

\* seven dry days in a row among the twenty days d+3 .. d+22
FalseStart(series, d) ==
    \E s \in (d + 3)..(d + 16) : \A j \in s..(s + 6) : Dry(series, j)

ValidOnsets(series, start, end) ==
    {d \in start..end : OnsetRun(series, d) /\ ~FalseStart(series, d)}

\* C13: detect_onset returns the earliest date of the search window that
\* starts three recorded days summing to 20 mm or more and is not a false
\* start, whatever candidates were rejected before it, and None exactly
\* when the window has no such date.
C13_EarliestValidOnset ==
    OnsetDone =>
        LET valid == ValidOnsets(agg.call.daily_rainfall, agg.call.start, agg.call.end)
        IN  /\ agg.result = None <=> valid = {}
            /\ agg.result # None =>
                   /\ agg.result[1] \in valid
                   /\ \A d \in valid : agg.result[1] <= d

\* a run of exactly 20 mm is returned after an earlier candidate was
\* rejected as a false start
C13_Witness ==
    /\ OnsetDone
    /\ agg.result # None
    /\ LET series == agg.call.daily_rainfall
           d == agg.result[1]
       IN  /\ series[d] + series[d + 1] + series[d + 2] = 2000
           /\ \E r \in agg.rejected : r < d /\ OnsetRun(series, r)

\* the candidates the scan has judged: the dates up to the returned one (or
\* to the end of the search window) that start a run of 20 mm
JudgedCandidates ==
    LET last == IF agg.result # None THEN agg.result[1] ELSE agg.call.end
    IN  {d \in agg.call.start..last : OnsetRun(agg.call.daily_rainfall, d)}

\* C14: a candidate is rejected as a false start exactly when, among the
\* twenty days after its three day run, seven or more days in a row are
\* dry, a day being dry when its rainfall is below 1 mm or when it has no
\* record.
C14_FalseStartRule ==
    OnsetDone =>
        \A d \in JudgedCandidates :
            d \in agg.rejected <=> FalseStart(agg.call.daily_rainfall, d)

\* a candidate was rejected for seven, not eight, dry days in a row, all of
\* them days without a record
C14_Witness ==
    /\ OnsetDone
    /\ \E d \in agg.rejected :
           LET series == agg.call.daily_rainfall
           IN  /\ \E s \in (d + 3)..(d + 16) : \A j \in s..(s + 6) : ~Recorded(series, j)
               /\ ~\E s \in (d + 3)..(d + 15) : \A j \in s..(s + 7) : Dry(series, j)

CessationDone == agg.done /\ agg.call.fn = "detect_cessation"

RECURSIVE SeriesSum(_, _, _)
SeriesSum(series, lo, hi) ==
    IF lo > hi THEN 0 ELSE series[lo] + SeriesSum(series, lo + 1, hi)

\* the 20-day window [c, c+19] is fully recorded and holds less than 10 mm
DryWindow(series, c) ==
    /\ \A j \in c..(c + 19) : Recorded(series, j)
    /\ SeriesSum(series, c, c + 19) < 1000

DryWindows(series, onset, end) == {c \in (onset + 1)..end : DryWindow(series, c)}

SeasonDone == agg.done /\ agg.call.fn = "season"

Statuses == {"detected", "pending", "not_found", "not_applicable", "no_data"}

\* the season is searched and the station has a daily record in its window
SeasonHasRecords ==
    /\ agg.call.season \in {"MAM", "JJA"}
    /\ LET w == season_windows(agg.call.year, agg.call.season)[1]
       IN  \E d \in DOMAIN daily[1] : w.onset_start <= d /\ d <= w.cessation_end

\* what the status says about the dates, apart from not_found
StatusAndDates(r) ==
    /\ r.status \in Statuses
    /\ agg.call.season \in {"SON", "DJF"} =>
           r.status = "not_applicable" /\ r.onset_date = None /\ r.cessation_date = None
    /\ (agg.call.season \in {"MAM", "JJA"} /\ ~SeasonHasRecords) => r.status = "no_data"
    /\ r.status = "detected" <=> (r.onset_date # None /\ r.cessation_date # None)
    /\ r.status = "pending" <=> (r.onset_date # None /\ r.cessation_date = None)
    /\ r.onset_date = None => r.cessation_date = None

\* C16 (as claimed): the status is one of the five and agrees with the
\* dates, with not_found if and only if the onset is null.
C16_StatusConsistent ==
    SeasonDone =>
        /\ StatusAndDates(agg.result)
        /\ agg.result.status = "not_found" <=> agg.result.onset_date = None

\* C16 (amended): the status is one of the five and agrees with the dates,
\* with not_found if and only if the season was searched on at least one
\* daily record and the onset is null; the onset is null under
\* not_applicable and no_data as well.
C16_StatusConsistentSearched ==
    SeasonDone =>
        /\ StatusAndDates(agg.result)
        /\ agg.result.status = "not_found" <=>
               (SeasonHasRecords /\ agg.result.onset_date = None)
        /\ agg.result.status \in {"not_applicable", "no_data"} =>
               agg.result.onset_date = None

\* a rainy season whose only records lie just outside the search window:
\* no_data, with a null onset
C16_Witness ==
    /\ SeasonDone
    /\ agg.call.season = "MAM"
    /\ DOMAIN daily[1] # {}
    /\ agg.result.status = "no_data"
    /\ agg.result.onset_date = None

(***************************************************************************)
(* Anomalies on their own (SpecAnomaly)                                    *)
(* agg.call is either an application of compute_climate_anomaly or a key   *)
(* of the monthly, dekadal, seasonal or annual aggregator, applied to a    *)
(* daily table and a climate_normals table.                                *)
(***************************************************************************)
AnomalyCalls ==
    {[fn |-> "compute_climate_anomaly", value |-> v, normal |-> n, method |-> me] :
        v \in {None, Some(0), Some(100), Some(120), Some(150), Some(-50), Some(1200)},
        n \in {None, Some(0), Some(100), Some(120), Some(-100), Some(1000)},
        me \in {"absolute", "percent", "ratio"}}

\* the keys whose summaries carry anomalies, one of each timescale
AnomalyKeys ==
    {MonthlyCall(1, 2024, 1), DekadalCall(1, 2024, 1, 3),
     SeasonalCall(1, 2024, "MAM"), AnnualCall(1, 2023)}

\* the exact rainfall sum of the period of key c in a daily table
PeriodSum(table, c) ==
    LET range == period_range(c)
        db == [daily |-> table, climate_normals |-> {}, summaries |-> NoSummaries]
        data == daily_data(db, c.station_id, range[1], range[2])
    IN  sum_rainfall(table[c.station_id], rainfall_values(db, c.station_id, data),
                     range[1], range[2])

InitAnomaly ==
    LET \* The climate_normals table, by variant: 1 empty; 2 the normal of the
        \* key's sub-period without a rainfall normal; 3 with the period's rainfall
        \* rounded to 0.1 mm as its normal; 4 with 0.1 mm less; 5 with a rainfall
        \* normal of 0; 6 a normal of another station only; 7 of another reference
        \* window only; 8 of another timescale only
        NormalsTable(c, sum, variant) ==
            LET normal == NormalFor(c, 1, Some(Round1(sum)))
            IN  IF variant = 1 THEN {}
                ELSE IF variant = 2 THEN {NormalFor(c, 1, None)}
                ELSE IF variant = 3 THEN {normal}
                ELSE IF variant = 4 THEN {NormalFor(c, 1, Some(Round1(sum) - 10))}
                ELSE IF variant = 5 THEN {NormalFor(c, 1, Some(0))}
                ELSE IF variant = 6 THEN {[normal EXCEPT !.station_id = 2]}
                ELSE IF variant = 7 THEN {[normal EXCEPT !.normal_period_start = 1981,
                                                          !.normal_period_end = 2010]}
                ELSE {[normal EXCEPT !.timescale = "weekly"]}
    IN
    /\ \/ /\ agg \in {[call |-> c, done |-> FALSE, result |-> None] : c \in AnomalyCalls}
          /\ daily = NoDaily
          /\ climate_normals = {}
       \/ \E c \in AnomalyKeys, p \in 1..Len(RainPatterns), short \in BOOLEAN,
             variant \in 1..8 :
            LET len == period_range(c)[3]
                table == PeriodData(c, p, IF short THEN len - (len \div 6) ELSE len + 1)
            IN  /\ agg = [call |-> c, done |-> FALSE, result |-> None]
                /\ daily = table
                /\ climate_normals = NormalsTable(c, PeriodSum(table, c), variant)
    /\ key = agg.call
    /\ summaries = NoSummaries
    /\ requests = NoRequests
    /\ ingested = 0
    /\ normal_runs = 0
    /\ run = NoRun

AnomalyCompute ==
    /\ ~agg.done
    /\ agg.call \in AnomalyCalls
    /\ agg' = [agg EXCEPT !.done = TRUE,
                          !.result = compute_climate_anomaly(
                                         agg.call.value, agg.call.normal, agg.call.method)]
    /\ UNCHANGED <<daily, climate_normals, summaries, key, requests, ingested, normal_runs, run>>

AnomalySummary ==
    /\ ~agg.done
    /\ agg.call \in AnomalyKeys
    /\ agg' = [agg EXCEPT !.done = TRUE, !.result = compute_summary(DB, agg.call)]
    /\ UNCHANGED <<daily, climate_normals, summaries, key, requests, ingested, normal_runs, run>>

NextAnomaly == AnomalyCompute \/ AnomalySummary

SpecAnomaly == InitAnomaly /\ [][NextAnomaly]_vars

(***************************************************************************)
(* Claims about anomalies                                                  *)
(***************************************************************************)
AnomalyDone == agg.done /\ agg.call \in AnomalyCalls

\* the returned float is x / y
IsFraction(r, x, y) == r # None /\ ~IsRaise(r) /\ r[1].num * y = x * r[1].den

\* C17: compute_climate_anomaly returns None when value or normal is None;
\* otherwise value - normal in absolute mode, (value - normal) / normal *
\* 100 in percent mode, None in percent mode with a normal of 0, and an
\* error for any other mode.
C17_AnomalyFunction ==
    AnomalyDone =>
        LET value == agg.call.value
            normal == agg.call.normal
            method == agg.call.method
        IN  IF value = None \/ normal = None THEN agg.result = None
            ELSE IF method = "absolute"
                 THEN IsFraction(agg.result, value[1] - normal[1], 1)
            ELSE IF method = "percent" THEN
                 IF normal[1] = 0 THEN agg.result = None
                 ELSE IsFraction(agg.result, (value[1] - normal[1]) * 100, normal[1])
            ELSE IsRaise(agg.result)

\* compute_climate_anomaly(120, 100, 'percent') is 20
C17_Witness ==
    /\ AnomalyDone
    /\ agg.call.value = Some(120) /\ agg.call.normal = Some(100)
    /\ agg.call.method = "percent"
    /\ IsFraction(agg.result, 20, 1)

SummaryDone ==
    /\ agg.done
    /\ agg.call \in AnomalyKeys
    /\ agg.result # None /\ ~IsRaise(agg.result)

\* the stored normals of (station, 1991-2020, timescale, sub-period) of c
MatchingNormals(c) ==
    {n \in climate_normals :
        /\ n.station_id = c.station_id
        /\ n.normal_period_start = 1991 /\ n.normal_period_end = 2020
        /\ n.timescale = c.timescale
        /\ c.timescale \in {"monthly", "dekadal"} => n.month = Some(c.month)
        /\ c.timescale = "dekadal" => n.dekad = Some(c.dekad)
        /\ c.timescale = "seasonal" => n.season = Some(c.season)}

\* the rainfall anomalies are null when there is no matching normal, when
\* it has no rainfall normal, or when the period has no rainfall value
AnomaliesNull(r) ==
    (\/ MatchingNormals(agg.call) = {}
     \/ \A n \in MatchingNormals(agg.call) : n.rainfall_normal = None
     \/ r.rainfall_total = None)
    => (r.rainfall_anomaly = None /\ r.rainfall_anomaly_percent = None)

Abs(x) == IF x < 0 THEN -x ELSE x

\* C18 (as claimed): the anomaly fields are null when the normal, its field
\* or the period's value is missing, and an anomaly of 0 is stored only
\* when the period's value equals the normal.
C18_ZeroOnlyWhenEqual ==
    SummaryDone =>
        LET r == agg.result[1]
            sum == PeriodSum(daily, agg.call)
        IN  /\ AnomaliesNull(r)
            /\ \A a \in {r.rainfall_anomaly, r.rainfall_anomaly_percent} :
                   a = Some(0) =>
                       \E n \in MatchingNormals(agg.call) :
                           n.rainfall_normal \in {r.rainfall_total, Some(sum)}

\* C18 (amended): the anomaly fields are null when the normal, its field or
\* the period's value is missing, and an anomaly of 0 is stored only when a
\* matching normal exists and the deviation from it rounds to 0.0: at most
\* 0.05 mm for rainfall_anomaly, at most 0.05 percent of the normal for
\* rainfall_anomaly_percent.
C18_ZeroOnlyWhenRoundedToZero ==
    SummaryDone =>
        LET r == agg.result[1]
            sum == PeriodSum(daily, agg.call)
        IN  /\ AnomaliesNull(r)
            /\ r.rainfall_anomaly = Some(0) =>
                   \E n \in MatchingNormals(agg.call) :
                       /\ n.rainfall_normal # None /\ r.rainfall_total # None
                       /\ Abs(sum - n.rainfall_normal[1]) <= 5
            /\ r.rainfall_anomaly_percent = Some(0) =>
                   \E n \in MatchingNormals(agg.call) :
                       /\ n.rainfall_normal # None /\ r.rainfall_total # None
                       /\ Abs(sum - n.rainfall_normal[1]) * 2000 <= Abs(n.rainfall_normal[1])

\* a percent anomaly of 0.0 is stored for a rainfall total 0.1 mm away from
\* its normal
C18_Witness ==
    /\ SummaryDone
    /\ agg.result[1].rainfall_anomaly_percent = Some(0)
    /\ agg.result[1].rainfall_anomaly # Some(0)
    /\ \E n \in MatchingNormals(agg.call) :
           n.rainfall_normal # agg.result[1].rainfall_total

(***************************************************************************)
(* Period resolution for a date (app/utils/aggregation.py):                *)
(* get_dekad_for_date and get_season_for_date                              *)
(***************************************************************************)
\* date_obj.month
month_of(d) ==
    LET y == year_of(d)
    IN  CHOOSE mo \in 1..12 :
            date(y, mo, 1) <= d /\ d < date(y, mo, 1) + days_in_month(y, mo)

\* date_obj.day
day_of(d) == d - date(year_of(d), month_of(d), 1) + 1

get_dekad_for_date_by_tens(date_obj) ==
    LET year == year_of(date_obj)
        month == month_of(date_obj)
        dekad == (day_of(date_obj) - 1) \div 10 + 1
    IN  <<year, month, dekad, date(year, month, 10 * dekad - 9),
          date(year, month, 10 * dekad)>>

\* <<year, month, dekad, start_date, end_date>>
get_dekad_for_date(date_obj) ==
    LET year == year_of(date_obj)
        month == month_of(date_obj)
        day == day_of(date_obj)
    IN  IF day <= 10 THEN <<year, month, 1, date(year, month, 1), date(year, month, 10)>>
        ELSE IF day <= 20
             THEN <<year, month, 2, date(year, month, 11), date(year, month, 20)>>
        ELSE <<year, month, 3, date(year, month, 21),
               date(year, month, days_in_month(year, month))>>

get_season_for_date_calendar_year(date_obj) ==
    LET month == month_of(date_obj)
        year == year_of(date_obj)
    IN  IF month \in {3, 4, 5} THEN <<"MAM", year, date(year, 3, 1), date(year, 5, 31)>>
        ELSE IF month \in {6, 7, 8} THEN <<"JJA", year, date(year, 6, 1), date(year, 8, 31)>>
        ELSE IF month \in {9, 10, 11}
             THEN <<"SON", year, date(year, 9, 1), date(year, 11, 30)>>
        ELSE <<"DJF", year, date(year, 12, 1),
               date(year + 1, 2, IF ~is_leap_year(year + 1) THEN 28 ELSE 29)>>

\* <<season_code, year, start_date, end_date>>
get_season_for_date(date_obj) ==
    LET month == month_of(date_obj)
        year == year_of(date_obj)
    IN  IF month \in {3, 4, 5} THEN <<"MAM", year, date(year, 3, 1), date(year, 5, 31)>>
        ELSE IF month \in {6, 7, 8} THEN <<"JJA", year, date(year, 6, 1), date(year, 8, 31)>>
        ELSE IF month \in {9, 10, 11}
             THEN <<"SON", year, date(year, 9, 1), date(year, 11, 30)>>
        ELSE IF month = 12
             THEN <<"DJF", year, date(year, 12, 1),
                    date(year + 1, 2, IF ~is_leap_year(year + 1) THEN 28 ELSE 29)>>
        ELSE <<"DJF", year - 1, date(year - 1, 12, 1),
               date(year, 2, IF ~is_leap_year(year) THEN 28 ELSE 29)>>

(***************************************************************************)
(* Period resolution on its own (SpecPeriods)                              *)
(* agg.call is a date and the month or season it was drawn from; the       *)
(* daily table has a record on every day of that month, or on the first    *)
(* days of that season.  The step resolves the date and applies the        *)
(* aggregator to the key resolved.  agg.call can also be a weekly key or   *)
(* the arguments of compute_dekadal_summary, with a record on every day    *)
(* of the week or month.                                                   *)
(***************************************************************************)
InitPeriods ==
    LET DekadYears == {2000, 2023, 2024, 2100}
        SeasonYears == {2023, 2024}
        \* a month and one of its days; records on every day of the month,
        \* the day before it and the day after it
        DekadInputs ==
            UNION {{[fn |-> "get_dekad_for_date", date_obj |-> date(y, mo, day),
                     year |-> y, month |-> mo, season |-> "", week_number |-> 0,
                     dekad |-> 0, records |-> days_in_month(y, mo) + 2,
                     spell |-> <<>>] :
                       day \in {x \in {1, 10, 11, 20, 21, 28, 29, 30, 31} :
                                   x <= days_in_month(y, mo)}} :
                   y \in DekadYears, mo \in 1..12}
        \* a season and one of its days; records on every day of the season,
        \* or on its first 63, 64 or 65 days only
        SeasonInputs ==
            {[fn |-> "get_season_for_date", date_obj |-> d, year |-> y, month |-> 0,
              season |-> se, week_number |-> 0, dekad |-> 0, records |-> n,
              spell |-> <<>>] :
                y \in SeasonYears, se \in {"MAM", "JJA", "SON", "DJF"},
                d \in UNION {season_range(yy, s)[1][1]..season_range(yy, s)[1][2] :
                                yy \in SeasonYears, s \in {"MAM", "JJA", "SON", "DJF"}},
                n \in {64, 65, 66, 93}}
        \* weekly keys as the weekly products accept them: 2020 and 2026
        \* have 53 ISO weeks, 2024 and 2025 have 52
        WeekInputs ==
            {[fn |-> "get_week_date_range", date_obj |-> date(y, 1, 4), year |-> y,
              month |-> 0, season |-> "", week_number |-> w, dekad |-> 0,
              records |-> 9, spell |-> <<>>] :
                y \in {2020, 2024, 2025, 2026}, w \in {1, 2, 52, 53}}
        \* arguments of compute_dekadal_summary, dekads 0 and 4 included
        DekadArguments ==
            {[fn |-> "compute_dekadal_summary", date_obj |-> date(2024, mo, 1),
              year |-> 2024, month |-> mo, season |-> "", week_number |-> 0,
              dekad |-> k, records |-> days_in_month(2024, mo) + 2,
              spell |-> <<>>] :
                mo \in {1, 2}, k \in 0..4}
        \* a season with dry spells: spell = <<a, middle, b, t>> for a dry
        \* days from the first day of the season on, a day that is dry, wet,
        \* without rainfall value or without record, b dry days, then wet
        \* days, and t dry days to the last day of the season
        DrySpellInputs ==
            {[fn |-> "compute_seasonal_summary", date_obj |-> date(2024, 9, 1),
              year |-> 2024, month |-> 0, season |-> "SON", week_number |-> 0,
              dekad |-> 0, records |-> 91, spell |-> <<a, middle, b, t>>] :
                a \in {3, 6}, middle \in {"dry", "wet", "null", "missing"},
                b \in {3, 4}, t \in {0, 6, 7}}
        DrySpellData(c) ==
            LET range == season_range(c.year, c.season)[1]
                gap == range[1] + c.spell[1]
                value(d) ==
                    IF d = gap
                    THEN (IF c.spell[2] = "dry" THEN Some(0)
                          ELSE IF c.spell[2] = "wet" THEN Some(2000) ELSE None)
                    ELSE IF d < gap \/ d <= gap + c.spell[3] \/ d > range[2] - c.spell[4]
                    THEN Some(0)
                    ELSE Some(500)
            IN  [s \in Stations |->
                    IF s = 1
                    THEN [d \in {x \in range[1]..range[2] :
                                    ~(c.spell[2] = "missing" /\ x = gap)} |->
                             [rainfall_total |-> value(d)]]
                    ELSE [d \in {range[1]} |-> [rainfall_total |-> Some(99900)]]]
        PeriodInputs ==
            DekadInputs
            \cup {c \in SeasonInputs :
                     season_range(c.year, c.season)[1][1] <= c.date_obj
                     /\ c.date_obj <= season_range(c.year, c.season)[1][2]}
            \cup WeekInputs
            \cup DekadArguments
            \cup DrySpellInputs
    IN
    \E c \in PeriodInputs :
        /\ agg = [call |-> c, done |-> FALSE, result |-> None]
        /\ daily = IF c.fn = "compute_seasonal_summary" THEN DrySpellData(c)
                   ELSE PeriodData(IF c.fn = "get_season_for_date"
                                   THEN SeasonalCall(1, c.year, c.season)
                                   ELSE IF c.fn = "get_week_date_range"
                                   THEN WeeklyCall(1, c.year, c.week_number)
                                   ELSE MonthlyCall(1, c.year, c.month),
                                   2, c.records)
        /\ key = c
        /\ climate_normals = {}
        /\ summaries = NoSummaries
        /\ requests = NoRequests
        /\ ingested = 0
        /\ normal_runs = 0
        /\ run = NoRun

\* the dekad of the date, and the dekadal summaries of its month
ResolveDekad ==
    /\ ~agg.done
    /\ agg.call.fn = "get_dekad_for_date"
    /\ LET resolved == get_dekad_for_date(agg.call.date_obj)
       IN  agg' = [agg EXCEPT
                      !.done = TRUE,
                      !.result =
                          [resolved |-> resolved,
                           summary |-> [k \in 1..3 |->
                               compute_dekadal_summary(DB, 1, resolved[1], resolved[2], k)]]]
    /\ UNCHANGED <<daily, climate_normals, summaries, key, requests, ingested, normal_runs, run>>

\* the season of the date, and the seasonal summary of the key resolved
ResolveSeason ==
    /\ ~agg.done
    /\ agg.call.fn = "get_season_for_date"
    /\ LET resolved == get_season_for_date(agg.call.date_obj)
       IN  agg' = [agg EXCEPT
                      !.done = TRUE,
                      !.result =
                          [resolved |-> resolved,
                           summary |->
                               compute_seasonal_summary(DB, 1, resolved[2], resolved[1])]]
    /\ UNCHANGED <<daily, climate_normals, summaries, key, requests, ingested, normal_runs, run>>

\* the interval of the weekly key, the ISO week of each of its days, and
\* the weekly summary of the key
ResolveWeek ==
    /\ ~agg.done
    /\ agg.call.fn = "get_week_date_range"
    /\ LET resolved == get_week_date_range(agg.call.year, agg.call.week_number)
       IN  agg' = [agg EXCEPT
                      !.done = TRUE,
                      !.result =
                          [resolved |-> resolved,
                           iso_week |-> [d \in resolved[1]..resolved[2] |-> get_iso_week(d)],
                           summary |->
                               compute_weekly_summary(DB, 1, agg.call.year,
                                                      agg.call.week_number)]]
    /\ UNCHANGED <<daily, climate_normals, summaries, key, requests, ingested, normal_runs, run>>

\* compute_dekadal_summary on its arguments
ComputeDekad ==
    /\ ~agg.done
    /\ agg.call.fn = "compute_dekadal_summary"
    /\ agg' = [agg EXCEPT
                  !.done = TRUE,
                  !.result =
                      [resolved |-> <<>>,
                       summary |->
                           compute_dekadal_summary(DB, 1, agg.call.year, agg.call.month,
                                                   agg.call.dekad)]]
    /\ UNCHANGED <<daily, climate_normals, summaries, key, requests, ingested, normal_runs, run>>

\* compute_seasonal_summary on a season with dry spells
ComputeSeason ==
    /\ ~agg.done
    /\ agg.call.fn = "compute_seasonal_summary"
    /\ agg' = [agg EXCEPT
                  !.done = TRUE,
                  !.result =
                      [resolved |-> <<>>,
                       summary |->
                           compute_seasonal_summary(DB, 1, agg.call.year,
                                                    agg.call.season)]]
    /\ UNCHANGED <<daily, climate_normals, summaries, key, requests, ingested, normal_runs, run>>

NextPeriods ==
    ResolveDekad \/ ResolveSeason \/ ResolveWeek \/ ComputeDekad \/ ComputeSeason

SpecPeriods == InitPeriods /\ [][NextPeriods]_vars

(***************************************************************************)
(* Claims about period resolution                                          *)
(***************************************************************************)
\* the first day of the month after (year, month)
NextMonthFirst(y, mo) == IF mo = 12 THEN date(y + 1, 1, 1) ELSE date(y, mo + 1, 1)

LeapYears == {2000, 2024}

\* days 1-10, 11-20 and 21 to the last day of the month
DekadInterval(y, mo, k) ==
    IF k = 1 THEN <<date(y, mo, 1), date(y, mo, 10)>>
    ELSE IF k = 2 THEN <<date(y, mo, 11), date(y, mo, 20)>>
    ELSE <<date(y, mo, 21), NextMonthFirst(y, mo) - 1>>

DekadDone == agg.done /\ agg.call.fn = "get_dekad_for_date"

\* C19: the dekads of a month are days 1-10, 11-20 and 21 to the last day
\* of the month (28 February, or 29 February in a leap year), they
\* partition the month, and get_dekad_for_date returns the dekad that
\* contains the date with the interval compute_dekadal_summary uses for it.
C19_DekadsPartitionMonth ==
    DekadDone =>
        LET c == agg.call
            resolved == agg.result.resolved
            summary == agg.result.summary
        IN  /\ \A k \in 1..3 :
                   /\ summary[k] # None
                   /\ <<summary[k][1].start_date, summary[k][1].end_date>>
                          = DekadInterval(c.year, c.month, k)
            /\ summary[1][1].start_date = date(c.year, c.month, 1)
            /\ summary[2][1].start_date = summary[1][1].end_date + 1
            /\ summary[3][1].start_date = summary[2][1].end_date + 1
            /\ summary[3][1].end_date + 1 = NextMonthFirst(c.year, c.month)
            /\ c.month = 2 =>
                   summary[3][1].end_date - summary[3][1].start_date + 1
                       = (IF c.year \in LeapYears THEN 9 ELSE 8)
            /\ resolved[1] = c.year /\ resolved[2] = c.month
            /\ resolved[3] \in 1..3
            /\ resolved[4] <= c.date_obj /\ c.date_obj <= resolved[5]
            /\ <<resolved[4], resolved[5]>>
                   = <<summary[resolved[3]][1].start_date, summary[resolved[3]][1].end_date>>

\* 29 February 2024 is in dekad 3 of February, which ends on it
C19_Witness ==
    /\ DekadDone
    /\ agg.call.year = 2024 /\ agg.call.month = 2
    /\ agg.call.date_obj = date(2024, 3, 1) - 1
    /\ agg.result.resolved[3] = 3
    /\ agg.result.resolved[5] = agg.call.date_obj
    /\ agg.result.summary[3][1].end_date = agg.call.date_obj


SeasonDateDone == agg.done /\ agg.call.fn = "get_season_for_date"

\* the first day of a season and the first day after it, the seasons being
\* March-May, June-August, September-November and December-February
SeasonBounds(y, se) ==
    IF se = "MAM" THEN <<date(y, 3, 1), date(y, 6, 1)>>
    ELSE IF se = "JJA" THEN <<date(y, 6, 1), date(y, 9, 1)>>
    ELSE IF se = "SON" THEN <<date(y, 9, 1), date(y, 12, 1)>>
    ELSE <<date(y, 12, 1), date(y + 1, 3, 1)>>

\* the days of the season on which the station reported
SeasonRecords(y, se) ==
    Cardinality({d \in DOMAIN daily[1] :
                    SeasonBounds(y, se)[1] <= d /\ d < SeasonBounds(y, se)[2]})

\* C20: DJF of a year runs from 1 December of that year to the last day of
\* February of the next, 91 days when the next year is a leap year and 90
\* otherwise, and that length is the one completeness is measured against;
\* get_season_for_date returns the season and year whose interval contains
\* the date, with the interval compute_seasonal_summary uses for that key,
\* and a January or February date belongs to DJF of the year before.
C20_SeasonOfDate ==
    SeasonDateDone =>
        LET c == agg.call
            resolved == agg.result.resolved
            summary == agg.result.summary
            bounds == SeasonBounds(resolved[2], resolved[1])
            length == bounds[2] - bounds[1]
        IN  /\ resolved[1] = c.season /\ resolved[2] = c.year
            /\ resolved[3] <= c.date_obj /\ c.date_obj <= resolved[4]
            /\ resolved[3] = bounds[1] /\ resolved[4] = bounds[2] - 1
            /\ month_of(c.date_obj) \in {1, 2} =>
                   resolved[1] = "DJF" /\ resolved[2] = year_of(c.date_obj) - 1
            /\ resolved[1] = "DJF" =>
                   /\ resolved[3] = date(resolved[2], 12, 1)
                   /\ resolved[4] = date(resolved[2] + 1, 2, 1)
                                    + (IF resolved[2] + 1 \in LeapYears THEN 28 ELSE 27)
                   /\ length = (IF resolved[2] + 1 \in LeapYears THEN 91 ELSE 90)
            /\ summary # None <=>
                   SeasonRecords(resolved[2], resolved[1]) * 100 >= 70 * length
            /\ summary # None =>
                   /\ summary[1].start_date = resolved[3]
                   /\ summary[1].end_date = resolved[4]

\* 28 February 2025 is the last day of DJF 2024, which starts on
\* 1 December 2024 and is complete enough with 63 of its 90 days
C20_Witness ==
    /\ SeasonDateDone
    /\ agg.call.date_obj = date(2025, 2, 28)
    /\ agg.result.resolved = <<"DJF", 2024, date(2024, 12, 1), date(2025, 2, 28)>>
    /\ SeasonRecords(2024, "DJF") = 63
    /\ agg.result.summary # None
    /\ agg.result.summary[1].start_date = date(2024, 12, 1)
    /\ agg.result.summary[1].end_date = date(2025, 2, 28)


WeekDone == agg.done /\ agg.call.fn = "get_week_date_range"

\* C21: the interval of a weekly key (iso_year, week_number), week_number in
\* 1..53, runs from a Monday to the Sunday after it, and every date of it
\* has ISO week (iso_year, week_number); the weekly summary of the key is
\* computed over that interval.
C21_WeekKeyOwnsItsDays ==
    WeekDone =>
        LET c == agg.call
            resolved == agg.result.resolved
        IN  /\ weekday(resolved[1]) = 0
            /\ resolved[2] = resolved[1] + 6
            /\ \A d \in resolved[1]..resolved[2] :
                   agg.result.iso_week[d] = <<c.year, c.week_number>>
            /\ agg.result.summary # None
            /\ agg.result.summary[1].start_date = resolved[1]
            /\ agg.result.summary[1].end_date = resolved[2]

DekadArgumentsDone == agg.done /\ agg.call.fn = "compute_dekadal_summary"

\* C22: compute_dekadal_summary with a dekad outside {1, 2, 3} fails: it
\* raises, and returns no summary.
C22_InvalidDekadRejected ==
    (DekadArgumentsDone /\ agg.call.dekad \notin {1, 2, 3}) =>
        IsRaise(agg.result.summary)


(***************************************************************************)
(* Degree days, reference evapotranspiration and water balance             *)
(* (app/utils/agro.py)                                                     *)
(* Temperatures are held in tenths of a degree, degree days in twentieths, *)
(* ET0 in hundredths of a millimetre, crop coefficients in fortieths and   *)
(* crop ET, daily balances and their totals in 1/4000 mm.  db is           *)
(* [daily, stations]: a daily record carries rainfall_total, temp_max and  *)
(* temp_min, stations maps a station id to its row, or to None.            *)
(***************************************************************************)
\* kc_values in fortieths, (30.0 the upper_temp of maize in tenths, ...)
CROP_PARAMETERS ==
    [maize |->
        [base_temp |-> 100, upper_temp |-> 300, maturity_gdd |-> 1400,
         kc_values |-> <<12, 28, 48, 24>>,
         critical_stages |-> <<<<"emergence", 100>>, <<"tasseling", 800>>,
                               <<"grain_fill", 1200>>, <<"maturity", 1400>>>>],
     rice |->
        [base_temp |-> 100, upper_temp |-> 350, maturity_gdd |-> 2000,
         kc_values |-> <<40, 44, 48, 36>>,
         critical_stages |-> <<<<"emergence", 120>>, <<"tillering", 600>>,
                               <<"flowering", 1400>>, <<"maturity", 2000>>>>],
     sorghum |->
        [base_temp |-> 80, upper_temp |-> 350, maturity_gdd |-> 1600,
         kc_values |-> <<12, 28, 40, 20>>,
         critical_stages |-> <<<<"emergence", 100>>, <<"flag_leaf", 900>>,
                               <<"flowering", 1200>>, <<"maturity", 1600>>>>]]

\* rows of the station in start_date..end_date with temp_max and temp_min
\* not null, as their dates
temperature_days(db, station_id, start_date, end_date) ==
    {d \in DOMAIN db.daily[station_id] :
        /\ d >= start_date /\ d <= end_date
        /\ db.daily[station_id][d].temp_max # None
        /\ db.daily[station_id][d].temp_min # None}

\* degree days of a day, in twentieths; upper_temp is None or Some(t), and
\* `if upper_temp` holds for a value that is neither None nor 0
calculate_gdd(temp_max, temp_min, base_temp, upper_temp, method) ==
    LET min(a, b) == IF a <= b THEN a ELSE b
        max(a, b) == IF a >= b THEN a ELSE b
    IN  IF method = "modified"
        THEN LET tmax_adj == IF upper_temp # None /\ upper_temp[1] # 0
                             THEN min(temp_max, upper_temp[1]) ELSE temp_max
                 tmin_adj == max(temp_min, base_temp)
             IN  max(0, (tmax_adj + tmin_adj) - 2 * base_temp)
        ELSE max(0, (temp_max + temp_min) - 2 * base_temp)

crop_stage_reached(critical_stages, gdd_total) ==
    LET met == {i \in 1..Len(critical_stages) : gdd_total > 20 * critical_stages[i][2]}
    IN  IF met = {} THEN None
        ELSE Some(critical_stages[CHOOSE i \in met : \A j \in met : j <= i][1])

\* for stage_name, stage_gdd in critical_stages.items(): the last stage
\* before the first one whose stage_gdd gdd_total does not reach
crop_stage_at(critical_stages, gdd_total) ==
    LET met == {i \in 1..Len(critical_stages) :
                   \A j \in 1..i : gdd_total >= 20 * critical_stages[j][2]}
    IN  IF met = {} THEN None
        ELSE Some(critical_stages[CHOOSE i \in met : \A j \in met : j <= i][1])

compute_gdd_accumulation(db, station_id, start_date, end_date, crop) ==
    IF crop \notin DOMAIN CROP_PARAMETERS THEN None
    ELSE
    LET crop_params == CROP_PARAMETERS[crop]
        base_temp == crop_params.base_temp
        upper_temp == crop_params.upper_temp
        table == db.daily[station_id]
        daily_summaries == temperature_days(db, station_id, start_date, end_date)
        gdd_day == [d \in daily_summaries |->
                       calculate_gdd(table[d].temp_max[1], table[d].temp_min[1],
                                     base_temp, Some(upper_temp), "modified")]
        gdd_total == sum_days(gdd_day, start_date, end_date)
        days_count == Cardinality(daily_summaries)
        maturity == 20 * crop_params.maturity_gdd
    IN  IF daily_summaries = {} THEN None
        ELSE Some([
            station_id |-> station_id,
            crop |-> crop,
            start_date |-> start_date,
            end_date |-> end_date,
            gdd_accumulated |-> RoundDiv(gdd_total, 2),
            days_count |-> days_count,
            average_gdd_per_day |-> RoundDiv(gdd_total, 2 * days_count),
            base_temp |-> base_temp,
            upper_temp |-> upper_temp,
            crop_stage |-> crop_stage_at(crop_params.critical_stages, gdd_total),
            days_to_maturity |->
                IF gdd_total < maturity /\ days_count > 0 /\ gdd_total > 0
                THEN Some(((maturity - gdd_total) * days_count) \div gdd_total)
                ELSE None,
            maturity_gdd |-> crop_params.maturity_gdd])


\* Ra in hundredths of MJ/m2/day, at latitude 5.6 for the days 61..80 of the
\* year (the values of the source's formula, rounded)
calculate_extraterrestrial_radiation(latitude, julian_day) ==
    LET Ra == <<3688, 3693, 3698, 3703, 3708, 3713, 3718, 3722, 3726, 3730,
                3734, 3738, 3742, 3745, 3748, 3751, 3754, 3757, 3759, 3761>>
    IN  CASE latitude = 56 /\ julian_day \in 61..80 -> Ra[julian_day - 60]

\* Some(ET0 in hundredths of a millimetre, rounded down), or the ValueError
\* math.sqrt raises for a negative temp_diff
calculate_et0_hargreaves(temp_max, temp_min, latitude, julian_day) ==
    LET temp_mean == temp_max + temp_min
        temp_diff == temp_max - temp_min
        Ra == calculate_extraterrestrial_radiation(latitude, julian_day)
        \* math.sqrt(temp_diff), in hundredths
        sqrt == CHOOSE r \in 0..500 :
                    r * r <= temp_diff * 1000 /\ temp_diff * 1000 < (r + 1) * (r + 1)
        et0 == ((((temp_mean + 356) * sqrt * Ra) \div 10000) * 9384) \div 2000000
    IN  IF temp_diff < 0 THEN Raise("ValueError")
        ELSE IF et0 > 0 THEN Some(et0) ELSE Some(0)

\* summary.date.timetuple().tm_yday
tm_yday(d) == d - date(year_of(d), 1, 1) + 1

\* the dates of a result of .order_by(DailySummary.date), in order
ordered(dates) ==
    [i \in 1..Cardinality(dates) |->
        CHOOSE d \in dates : Cardinality({x \in dates : x <= d}) = i]

compute_et0_series(db, station_id, start_date, end_date) ==
    LET station == db.stations[station_id]
        table == db.daily[station_id]
        daily_summaries == temperature_days(db, station_id, start_date, end_date)
        et0 == [d \in daily_summaries |->
                   calculate_et0_hargreaves(table[d].temp_max[1], table[d].temp_min[1],
                                            station[1].latitude[1], tm_yday(d))]
        days == ordered(daily_summaries)
    IN  IF station = None \/ station[1].latitude = None THEN <<>>
        ELSE IF \E d \in daily_summaries : IsRaise(et0[d]) THEN Raise("ValueError")
        ELSE [i \in 1..Cardinality(daily_summaries) |->
                 [observation_date |-> days[i],
                  et0_mm |-> et0[days[i]][1],
                  temp_max |-> table[days[i]].temp_max,
                  temp_min |-> table[days[i]].temp_min]]

irrigation_for_any(water_balance_day) ==
    IF water_balance_day < 0 THEN 0 - water_balance_day ELSE water_balance_day

\* irrigation_requirement += abs(water_balance_day) if water_balance_day < 0
irrigation_for(water_balance_day) ==
    IF water_balance_day < 0 THEN 0 - water_balance_day ELSE 0

compute_water_balance(db, station_id, start_date, end_date, crop) ==
    IF crop \notin DOMAIN CROP_PARAMETERS THEN None
    ELSE
    LET crop_params == CROP_PARAMETERS[crop]
        station == db.stations[station_id]
        table == db.daily[station_id]
        daily_summaries == temperature_days(db, station_id, start_date, end_date)
        kc_avg == (crop_params.kc_values[1] + crop_params.kc_values[2]
                   + crop_params.kc_values[3] + crop_params.kc_values[4])
                  \div Len(crop_params.kc_values)
        et0 == [d \in daily_summaries |->
                   calculate_et0_hargreaves(table[d].temp_max[1], table[d].temp_min[1],
                                            station[1].latitude[1], tm_yday(d))]
        etc == [d \in daily_summaries |-> et0[d][1] * kc_avg]
        \* summary.rainfall_total if summary.rainfall_total else 0.0
        rainfall == [d \in daily_summaries |->
                        IF table[d].rainfall_total # None /\ table[d].rainfall_total[1] # 0
                        THEN table[d].rainfall_total[1] ELSE 0]
        water_balance_day == [d \in daily_summaries |-> 40 * rainfall[d] - etc[d]]
        total_rainfall == sum_days(rainfall, start_date, end_date)
        total_et0 == sum_days([d \in daily_summaries |-> et0[d][1]], start_date, end_date)
        total_etc == sum_days(etc, start_date, end_date)
        irrigation_requirement ==
            sum_days([d \in daily_summaries |-> irrigation_for(water_balance_day[d])],
                     start_date, end_date)
        days == ordered(daily_summaries)
    IN  IF station = None \/ station[1].latitude = None THEN None
        ELSE IF daily_summaries = {} THEN None
        ELSE IF \E d \in daily_summaries : IsRaise(et0[d]) THEN Raise("ValueError")
        ELSE Some([
            station_id |-> station_id,
            crop |-> crop,
            start_date |-> start_date,
            end_date |-> end_date,
            total_rainfall_mm |-> RoundDiv(total_rainfall, 10),
            total_et0_mm |-> RoundDiv(total_et0, 10),
            total_etc_mm |-> RoundDiv(total_etc, 400),
            water_balance_mm |-> RoundDiv(40 * total_rainfall - total_etc, 400),
            deficit_days |-> Cardinality({d \in daily_summaries : water_balance_day[d] < 0}),
            surplus_days |-> Cardinality({d \in daily_summaries : ~(water_balance_day[d] < 0)}),
            irrigation_requirement_mm |-> RoundDiv(irrigation_requirement, 400),
            water_stress_index |->
                IF total_etc > 0 THEN RoundDiv(irrigation_requirement * 1000, total_etc)
                ELSE 0,
            kc_avg |-> RoundDiv(kc_avg * 100, 40),
            daily_values |->
                [i \in 1..Cardinality(daily_summaries) |->
                    [observation_date |-> days[i],
                     rainfall_mm |-> RoundDiv(rainfall[days[i]], 10),
                     et0_mm |-> et0[days[i]][1],
                     etc_mm |-> RoundDiv(etc[days[i]], 40),
                     water_balance_mm |-> RoundDiv(water_balance_day[days[i]], 40)]]])


(***************************************************************************)
(* The crop products on their own (SpecCrop)                               *)
(* agg.call is an application of calculate_gdd, or the arguments of        *)
(* compute_gdd_accumulation, compute_et0_series or compute_water_balance   *)
(* on a daily table; agg.stations is the stations table: station 1 lies at *)
(* latitude 5.6, no other station has a row.                               *)
(***************************************************************************)
InitCrop ==
    LET call(fn, station_id, e1, e2, crop, arguments) ==
            [fn |-> fn, station_id |-> station_id, start_date |-> AgroBase + e1,
             end_date |-> AgroBase + e2, crop |-> crop, arguments |-> arguments]
        rain(d) == <<None, Some(0), Some(25), Some(2000)>>[(d % 4) + 1]
        \* The rows of station 1 from 1 March 2024, by variant: 1 a hundred
        \* days of 32.0 / 30.0 degrees; 2 five days without temp_max, five
        \* days of 5.0 / 5.0, then days of 32.5 / 24.0, but 24.0 / 32.0 on the
        \* thirteenth day, twenty days in all; 3 no row
        rows(variant) ==
            IF variant = 1
            THEN [d \in AgroBase..(AgroBase + 99) |->
                     [rainfall_total |-> rain(d), temp_max |-> Some(320),
                      temp_min |-> Some(300)]]
            ELSE IF variant = 2
            THEN [d \in AgroBase..(AgroBase + 19) |->
                     [rainfall_total |-> rain(d),
                      temp_max |-> IF d < AgroBase + 5 THEN None
                                   ELSE IF d < AgroBase + 10 THEN Some(50)
                                   ELSE IF d = AgroBase + 12 THEN Some(240)
                                   ELSE Some(325),
                      temp_min |-> IF d < AgroBase + 10 THEN Some(50)
                                   ELSE IF d = AgroBase + 12 THEN Some(320)
                                   ELSE Some(240)]]
            ELSE <<>>
        table(variant) == [s \in Stations |-> IF s = 1 THEN rows(variant) ELSE <<>>]
        crops == {"maize", "rice", "sorghum", "cassava"}
        ranges == {<<e1, e2>> \in {0, 5, 10, 13} \X {4, 9, 11, 12, 19} : e1 <= e2}
        gdd_calls ==
            {<<call("calculate_gdd", 0, 0, 0, "", <<tmax, tmin, base, upper, method>>), 3>> :
                tmax \in {50, 120, 200, 320, 350}, tmin \in {0, 50, 80, 220, 340},
                base \in {100, 80, -50}, upper \in {None, Some(0), Some(300), Some(350)},
                method \in {"modified", "average"}}
        accumulation_calls ==
            {<<call("compute_gdd_accumulation", 1, 0, e, crop, <<>>), 1>> :
                e \in 0..99, crop \in crops}
            \cup {<<call("compute_gdd_accumulation", 1, r[1], r[2], crop, <<>>), variant>> :
                    r \in ranges, crop \in crops, variant \in {2, 3}}
        et0_calls ==
            {<<call("compute_et0_series", s, r[1], r[2], "", <<>>), variant>> :
                s \in Stations, r \in ranges, variant \in {1, 2, 3}}
        balance_calls ==
            {<<call("compute_water_balance", s, r[1], r[2], crop, <<>>), variant>> :
                s \in Stations, r \in ranges, crop \in crops, variant \in {1, 2, 3}}
    IN
    \E c \in gdd_calls \cup accumulation_calls \cup et0_calls \cup balance_calls :
        /\ agg = [call |-> c[1], done |-> FALSE, result |-> None,
                  stations |-> [s \in Stations |->
                                   IF s = 1 THEN Some([latitude |-> Some(56)]) ELSE None]]
        /\ daily = table(IF c[1].station_id > 1 THEN 3 ELSE c[2])
        /\ key = c[1]
        /\ climate_normals = {}
        /\ summaries = NoSummaries
        /\ requests = NoRequests
        /\ ingested = 0
        /\ normal_runs = 0
        /\ run = NoRun

CropDB == [daily |-> daily, stations |-> agg.stations]

CropGdd ==
    /\ ~agg.done
    /\ agg.call.fn = "calculate_gdd"
    /\ LET a == agg.call.arguments
       IN  agg' = [agg EXCEPT !.done = TRUE,
                              !.result = calculate_gdd(a[1], a[2], a[3], a[4], a[5])]
    /\ UNCHANGED <<daily, climate_normals, summaries, key, requests, ingested, normal_runs, run>>

CropAccumulate ==
    /\ ~agg.done
    /\ agg.call.fn = "compute_gdd_accumulation"
    /\ agg' = [agg EXCEPT
                  !.done = TRUE,
                  !.result = compute_gdd_accumulation(
                                 CropDB, agg.call.station_id, agg.call.start_date,
                                 agg.call.end_date, agg.call.crop)]
    /\ UNCHANGED <<daily, climate_normals, summaries, key, requests, ingested, normal_runs, run>>

CropEt0 ==
    /\ ~agg.done
    /\ agg.call.fn = "compute_et0_series"
    /\ agg' = [agg EXCEPT
                  !.done = TRUE,
                  !.result = compute_et0_series(
                                 CropDB, agg.call.station_id, agg.call.start_date,
                                 agg.call.end_date)]
    /\ UNCHANGED <<daily, climate_normals, summaries, key, requests, ingested, normal_runs, run>>

CropBalance ==
    /\ ~agg.done
    /\ agg.call.fn = "compute_water_balance"
    /\ agg' = [agg EXCEPT
                  !.done = TRUE,
                  !.result = compute_water_balance(
                                 CropDB, agg.call.station_id, agg.call.start_date,
                                 agg.call.end_date, agg.call.crop)]
    /\ UNCHANGED <<daily, climate_normals, summaries, key, requests, ingested, normal_runs, run>>

NextCrop == CropGdd \/ CropAccumulate \/ CropEt0 \/ CropBalance

SpecCrop == InitCrop /\ [][NextCrop]_vars


(***************************************************************************)
(* Claims about the crop products                                          *)
(***************************************************************************)
GddDone == agg.done /\ agg.call.fn = "calculate_gdd"

AccumulateDone == agg.done /\ agg.call.fn = "compute_gdd_accumulation"

Et0Done == agg.done /\ agg.call.fn = "compute_et0_series"

BalanceDone == agg.done /\ agg.call.fn = "compute_water_balance"

KnownCrop == agg.call.crop \in {"maize", "rice", "sorghum"}

\* the dates of the call's range with a row that has both temperatures
TemperatureRecords ==
    {d \in DOMAIN daily[agg.call.station_id] :
        /\ agg.call.start_date <= d /\ d <= agg.call.end_date
        /\ daily[agg.call.station_id][d].temp_max # None
        /\ daily[agg.call.station_id][d].temp_min # None}

\* C23: an unknown crop and a station without the latitude the computation
\* needs are reported as errors, never as the result that stands for
\* "no data in range" (None, or an empty list).
C23_ErrorsDistinctFromAbsence ==
    /\ ((AccumulateDone \/ BalanceDone) /\ ~KnownCrop) => IsRaise(agg.result)
    /\ ((Et0Done \/ (BalanceDone /\ KnownCrop))
        /\ agg.stations[agg.call.station_id] = None) => IsRaise(agg.result)

\* max(0, (min(Tmax, Tupper) + max(Tmin, Tbase)) / 2 - Tbase), in twentieths
ModifiedGdd(tmax, tmin, base, upper) ==
    LET capped == IF tmax <= upper THEN tmax ELSE upper
        floored == IF tmin >= base THEN tmin ELSE base
        g == capped + floored - 2 * base
    IN  IF g > 0 THEN g ELSE 0

\* C24: with the modified method and an upper threshold, calculate_gdd is
\* max(0, (min(Tmax, Tupper) + max(Tmin, Tbase)) / 2 - Tbase); with either
\* method it is never negative.
C24_ModifiedGddFormula ==
    GddDone =>
        LET a == agg.call.arguments
        IN  /\ agg.result >= 0
            /\ (a[5] = "modified" /\ a[4] # None) =>
                   agg.result = ModifiedGdd(a[1], a[2], a[3], a[4][1])

\* C25: compute_et0_series of a station with a latitude does not fail and
\* has one entry, with et0_mm >= 0, for every row of the range that has
\* temp_max and temp_min.
C25_Et0ForEveryRecord ==
    (Et0Done /\ agg.stations[agg.call.station_id] # None) =>
        /\ ~IsRaise(agg.result)
        /\ {agg.result[i].observation_date : i \in DOMAIN agg.result} = TemperatureRecords
        /\ \A i \in DOMAIN agg.result : agg.result[i].et0_mm >= 0


\* the degree days accumulated over the rows of first..last that have both
\* temperatures, in twentieths
AccumulatedGdd(first, last) ==
    LET c == agg.call
        p == CROP_PARAMETERS[c.crop]
        rows == daily[c.station_id]
    IN  sum_days([d \in {x \in TemperatureRecords : first <= x /\ x <= last} |->
                     ModifiedGdd(rows[d].temp_max[1], rows[d].temp_min[1],
                                 p.base_temp, p.upper_temp)],
                 first, last)

\* the position of a crop stage in the crop's table, 0 for None
StageIndex(stage) ==
    LET stages == CROP_PARAMETERS[agg.call.crop].critical_stages
    IN  IF stage = None THEN 0
        ELSE CHOOSE i \in 1..Len(stages) : stages[i][1] = stage[1]

\* C26: crop_stage is the stage with the largest threshold that the
\* accumulated degree days reach, None if they reach none; it is maturity
\* exactly when they reach maturity_gdd; it does not move back, and the
\* accumulated degree days do not decrease, when a day is added to the
\* range; days_to_maturity is non-null exactly when the accumulated degree
\* days are positive and below maturity_gdd.
C26_StageFollowsThresholds ==
    (AccumulateDone /\ KnownCrop /\ TemperatureRecords # {}) =>
        LET c == agg.call
            p == CROP_PARAMETERS[c.crop]
            r == agg.result[1]
            total == AccumulatedGdd(c.start_date, c.end_date)
            reached == {i \in 1..Len(p.critical_stages) :
                           20 * p.critical_stages[i][2] <= total}
            before == compute_gdd_accumulation(CropDB, c.station_id, c.start_date,
                                               c.end_date - 1, c.crop)
        IN  /\ agg.result # None
            /\ r.gdd_accumulated = RoundDiv(total, 2)
            /\ r.days_count = Cardinality(TemperatureRecords)
            /\ StageIndex(r.crop_stage) \in reached \cup {0}
            /\ \A i \in reached : i <= StageIndex(r.crop_stage)
            /\ r.crop_stage = Some("maturity") <=> total >= 20 * p.maturity_gdd
            /\ r.days_to_maturity # None <=> (total > 0 /\ total < 20 * p.maturity_gdd)
            /\ r.days_to_maturity # None => r.days_to_maturity[1] >= 0
            /\ before # None =>
                   /\ StageIndex(before[1].crop_stage) <= StageIndex(r.crop_stage)
                   /\ before[1].gdd_accumulated <= r.gdd_accumulated

\* forty days of 20 degree days bring maize to exactly the 800 of tasseling,
\* thirty days from maturity
C26_Witness ==
    /\ AccumulateDone
    /\ agg.call.crop = "maize"
    /\ agg.result # None
    /\ agg.result[1].gdd_accumulated = 8000
    /\ agg.result[1].crop_stage = Some("tasseling")
    /\ agg.result[1].days_to_maturity = Some(30)

\* crop ET of a day of the range, in 1/4000 mm
DayEtc(d) ==
    LET c == agg.call
        p == CROP_PARAMETERS[c.crop]
        rows == daily[c.station_id]
        kc == (p.kc_values[1] + p.kc_values[2] + p.kc_values[3] + p.kc_values[4]) \div 4
    IN  kc * calculate_et0_hargreaves(rows[d].temp_max[1], rows[d].temp_min[1],
                                      agg.stations[c.station_id][1].latitude[1],
                                      tm_yday(d))[1]

\* rainfall of a day of the range, in 1/4000 mm
DayRain(d) ==
    LET rain == daily[agg.call.station_id][d].rainfall_total
    IN  IF rain = None THEN 0 ELSE 40 * rain[1]

TmaxYears(k) ==
    {y \in NormalPeriodStart..NormalPeriodEnd :
        LET range == normal_year_range(k, y)
            found == {d \in DOMAIN daily[1] : range[1] <= d /\ d <= range[2]}
        IN  /\ Cardinality(found) >= normal_min_days(k)
            /\ \E d \in found : daily[1][d].temp_max # None}

\* C27 (as claimed): in a climate normal that is produced, every field
\* normal that is not null is the mean of at least min_years_required (20)
\* yearly values: years_with_data bounds from below the number of years
\* behind rainfall_normal and behind temp_max_normal alike.
C27_EveryFieldOnTwentyYears ==
    (EngineDone /\ agg.result # None) =>
        /\ agg.result[1].rainfall_normal # None =>
               /\ Cardinality(QualifyingYears(agg.call)) >= MinYearsRequired
               /\ Cardinality(QualifyingYears(agg.call))
                      >= agg.result[1].years_with_data
        /\ agg.result[1].temp_max_normal # None =>
               /\ Cardinality(TmaxYears(agg.call)) >= MinYearsRequired
               /\ Cardinality(TmaxYears(agg.call)) >= agg.result[1].years_with_data


(***************************************************************************)
(* Claims about the length of a detected season                            *)
(***************************************************************************)
\* C28 (as claimed): a cessation date reported by
\* compute_onset_cessation_for_season occurs after the onset date it is
\* reported with, so that a detected season has season_length_days >= 1.
C28_CessationAfterOnset ==
    (SeasonDone /\ agg.result.cessation_date # None) =>
        /\ agg.result.onset_date # None
        /\ agg.result.cessation_date[1] > agg.result.onset_date[1]
        /\ agg.result.status = "detected" =>
               /\ agg.result.season_length_days # None
               /\ agg.result.season_length_days[1] >= 1


(***************************************************************************)
(* Claims about the dry spells of a seasonal summary                       *)
(***************************************************************************)
SeasonSpellsDone == agg.done /\ agg.call.fn = "compute_seasonal_summary"

\* the calendar days of the season of the call
SeasonDays ==
    LET range == season_range(agg.call.year, agg.call.season)[1]
    IN  range[1]..range[2]

\* a calendar day of the season with a recorded rainfall below 1 mm
RecordedDry(d) ==
    /\ d \in SeasonDays
    /\ d \in DOMAIN daily[1]
    /\ daily[1][d].rainfall_total # None
    /\ daily[1][d].rainfall_total[1] < 100

\* the maximal runs of consecutive calendar days that are recorded dry, as
\* <<first day, last day>>
DryRuns ==
    {r \in SeasonDays \X SeasonDays :
        /\ r[1] <= r[2]
        /\ \A d \in r[1]..r[2] : RecordedDry(d)
        /\ ~RecordedDry(r[1] - 1)
        /\ ~RecordedDry(r[2] + 1)}

\* C30 (as claimed): max_dry_spell_days is the length of the longest run of
\* consecutive calendar days of the season with a recorded rainfall below
\* 1 mm, and dry_spells_count the number of such maximal runs of 7 days or
\* more, a run open at the end of the season included; a run does not span
\* a day without record or without rainfall value.
C30_DrySpellsOfCalendarDays ==
    (SeasonSpellsDone /\ agg.result.summary # None) =>
        LET summary == agg.result.summary[1]
        IN  /\ summary.max_dry_spell_days # None
            /\ \A r \in DryRuns : r[2] - r[1] + 1 <= summary.max_dry_spell_days[1]
            /\ summary.max_dry_spell_days[1] > 0 =>
                   \E r \in DryRuns : r[2] - r[1] + 1 = summary.max_dry_spell_days[1]
            /\ summary.dry_spells_count
                   = Some(Cardinality({r \in DryRuns : r[2] - r[1] + 1 >= 7}))

====
